---------------------------- MODULE Spec2Model ----------------------------
(***************************************************************************)
(* Price-intelligence pipeline of retail-price-intelligence-system:        *)
(* the PipelineOrchestrator (server/pipeline/orchestrator.py), the three   *)
(* pipeline tasks (server/pipeline/tasks.py) and the metric helpers of     *)
(* models/utils.py, over the tables of models/db_models.py.                *)
(*                                                                         *)
(* Money is counted in whole currency units, percentages in whole          *)
(* percent, stored Numeric(.,2) values in hundredths where a fraction can  *)
(* arise.  Time is counted in ticks, TicksPerDay ticks to a calendar day.  *)
(***************************************************************************)
EXTENDS Integers, Sequences, FiniteSets, TLC

VARIABLES
    \* ---- PipelineOrchestrator ----
    tasks,          \* self.tasks: the engine list (class names)
    results,        \* self.results: the last report stored by run()
    run_pc,         \* where the caller of run() is
    run_i,          \* loop index of run() (1-based, as enumerate(.., 1))
    run_results,    \* the local `results` dict of run()
    outcomes,       \* what each engine's execute did in this run, in order
    calls,          \* the execute() and close() calls of this run, in order
    entry,          \* the method the caller started this run with
    \* ---- the store ----
    now,            \* the clock, in ticks
    ticks,          \* how many times the clock was advanced
    product_sources,\* table product_sources: id -> row
    prices,         \* table prices: a set of observation rows
    discount_analysis, \* table discount_analysis: a sequence of rows
    price_comparisons, \* table price_comparisons: a sequence of rows
    price_alerts,   \* table price_alerts: id -> row
    \* ---- DiscountAnalysisTask.execute ----
    disc_pc,        \* "idle", or "loop" while execute() iterates
    disc_today,     \* the local `today` of execute()
    disc_queue,     \* the source-links the for loop has still to visit
    disc_results,   \* the local `results` dict, returned at the end
    disc_session,   \* self.db: "active", or "inactive" after a failed statement
    disc_faulty,    \* the source-links whose own processing raised in this run
    \* ---- PriceComparisonTask.execute ----
    cmp_pc, cmp_today, cmp_queue, cmp_results, cmp_session, cmp_faulty,
    \* ---- PriceAlertTask.execute ----
    alert_pc, alert_queue, alert_results, alert_session, alert_faulty,
    \* ---- calls of the trend functions ----
    trend_call,     \* the last call of _determine_trend: arguments and label
    analytics_call, \* the last call of get_price_trend: series and result
    \* ---- TaskScheduler: jobs on threads sharing one orchestrator ----
    self_tasks,     \* orchestrator.tasks: the list object it refers to
    lists,          \* the list objects made so far: object -> engines held
    self_results,   \* orchestrator.results
    jobs,           \* thread -> the job it runs: method, position, locals
    \* ---- DiscountAnalysisTask: one pass, query by query ----
    disc_pass,      \* the pass under way: position, latest_price, metrics
    \* ---- get_or_create_product_source ----
    link_table,     \* table product_sources as the helper sees it: id -> row
    link_call,      \* the last call of the helper: arguments and row returned
    \* ---- two pipeline runs executing the same engine at once ----
    runs            \* run -> engine, position, session, pending row, results

orch_vars  == <<tasks, results, run_pc, run_i, run_results, outcomes, calls,
                entry>>
store_vars == <<now, ticks, product_sources, prices>>
disc_vars  == <<disc_pc, disc_today, disc_queue, disc_results, disc_session,
                disc_faulty, discount_analysis>>
cmp_vars   == <<cmp_pc, cmp_today, cmp_queue, cmp_results, cmp_session,
                cmp_faulty, price_comparisons>>
alert_vars == <<alert_pc, alert_queue, alert_results, alert_session,
                alert_faulty, price_alerts>>
call_vars  == <<trend_call, analytics_call>>
sched_vars == <<self_tasks, lists, self_results, jobs>>
link_vars  == <<link_table, link_call>>
aux_vars   == <<call_vars, sched_vars, disc_pass, link_vars, runs>>
vars == <<orch_vars, store_vars, disc_vars, cmp_vars, alert_vars, aux_vars>>

\* Python's None for an optional number (prices and counts are >= 0).
None == -1

(***************************************************************************)
(* Bounds of the model.                                                    *)
(***************************************************************************)
MaxTasks == 2
NumLinks == 4
MaxPrice == 2
MaxPrices == 3
MaxDiscPrices == 2
MaxTicks == 2
\* Alerts created, and firings of one alert.
MaxAlerts == 2
MaxTriggers == 2
\* Entities whose own processing raises in one run of a task.
MaxFaults == 1
MaxSeries == 3
NumThreads == 2
MaxLinkRows == 2
NumRuns == 2
MaxRacePrices == 2

(***************************************************************************)
(* PipelineOrchestrator                                                    *)
(***************************************************************************)
TaskClasses == {"DiscountAnalysisTask", "PriceComparisonTask", "PriceAlertTask"}
\* What an engine's execute can return, and the messages it can raise with.
ResultValues == {"r1", "r2"}
ErrorMessages == {"e1"}

NoReport == [tasks |-> <<>>, total_tasks |-> 0, successful |-> 0, failed |-> 0,
             completed |-> FALSE]

OrchInit ==
    /\ tasks = <<>>
    /\ results = NoReport
    /\ run_pc = "idle"
    /\ run_i = 0
    /\ run_results = NoReport
    /\ outcomes = <<>>
    /\ calls = <<>>
    /\ entry = "none"

\* The caller is not inside run().
NotRunning == run_pc \in {"idle", "completed", "raised"}

add_task(t) ==
    /\ NotRunning
    /\ Len(tasks) < MaxTasks
    /\ tasks' = Append(tasks, t)
    /\ run_pc' = "idle"
    /\ UNCHANGED <<results, run_i, run_results, outcomes, calls, entry>>

\* run(), lines 23-30: the report is initialised and the loop is entered.
RunBegin(list) ==
    /\ run_results' = [tasks |-> <<>>, total_tasks |-> Len(list),
                       successful |-> 0, failed |-> 0, completed |-> FALSE]
    /\ run_i' = 1
    /\ run_pc' = "loop"
    /\ outcomes' = <<>>
    /\ calls' = <<>>

run ==
    /\ NotRunning
    /\ RunBegin(tasks)
    /\ entry' = "run"
    /\ UNCHANGED <<tasks, results>>

\* Mutant: the success record is put in front of the list.
RecordSuccess_Prepended(r) ==
    /\ run_results' = [run_results EXCEPT
            !.tasks = <<[task |-> tasks[run_i], status |-> "success",
                         result |-> r]>> \o @,
            !.successful = @ + 1]
    /\ outcomes' = Append(outcomes, [raised |-> FALSE, value |-> r])
    /\ calls' = Append(calls, <<"execute", run_i>>)

\* The try branch: execute returned r; the record is appended.
RecordSuccess(r) ==
    /\ run_results' = [run_results EXCEPT
            !.tasks = Append(@, [task |-> tasks[run_i], status |-> "success",
                                 result |-> r]),
            !.successful = @ + 1]
    /\ outcomes' = Append(outcomes, [raised |-> FALSE, value |-> r])
    /\ calls' = Append(calls, <<"execute", run_i>>)

\* Mutant: the failure is recorded but not counted.
RecordFailure_Uncounted(e) ==
    /\ run_results' = [run_results EXCEPT
            !.tasks = Append(@, [task |-> tasks[run_i], status |-> "failed",
                                 error |-> e])]
    /\ outcomes' = Append(outcomes, [raised |-> TRUE, value |-> e])
    /\ calls' = Append(calls, <<"execute", run_i>>)

\* The except branch: execute raised Exception(e); the record is appended.
RecordFailure(e) ==
    /\ run_results' = [run_results EXCEPT
            !.tasks = Append(@, [task |-> tasks[run_i], status |-> "failed",
                                 error |-> e]),
            !.failed = @ + 1]
    /\ outcomes' = Append(outcomes, [raised |-> TRUE, value |-> e])
    /\ calls' = Append(calls, <<"execute", run_i>>)

run_execute_returns(r) ==
    /\ run_pc = "loop"
    /\ run_i <= Len(tasks)
    /\ RecordSuccess(r)
    /\ run_pc' = "finally"
    /\ UNCHANGED <<tasks, results, run_i, entry>>

\* The except branch without the finally block: close() is not called.
run_execute_raises_SkipsClose(e) ==
    /\ run_pc = "loop"
    /\ run_i <= Len(tasks)
    /\ RecordFailure(e)
    /\ run_pc' = "loop"
    /\ run_i' = run_i + 1
    /\ UNCHANGED <<tasks, results, entry>>

run_execute_raises(e) ==
    /\ run_pc = "loop"
    /\ run_i <= Len(tasks)
    /\ RecordFailure(e)
    /\ run_pc' = "finally"
    /\ UNCHANGED <<tasks, results, run_i, entry>>

\* finally, with the loop staying on an engine whose execute raised.
run_close_returns_Retries ==
    /\ run_pc = "finally"
    /\ run_i' = IF outcomes[Len(outcomes)].raised /\ Len(outcomes) < MaxTasks + 2
               THEN run_i ELSE run_i + 1
    /\ run_pc' = "loop"
    /\ calls' = Append(calls, <<"close", run_i>>)
    /\ UNCHANGED <<tasks, results, run_results, outcomes, entry>>

\* finally: task.close() returned; the loop goes on with the next engine.
run_close_returns ==
    /\ run_pc = "finally"
    /\ run_i' = run_i + 1
    /\ run_pc' = "loop"
    /\ calls' = Append(calls, <<"close", run_i>>)
    /\ UNCHANGED <<tasks, results, run_results, outcomes, entry>>

\* finally: task.close() (self.db.close()) raised: nothing in run() catches
\* it, the exception leaves run() and the local report is lost.
run_close_raises ==
    /\ run_pc = "finally"
    /\ run_pc' = "raised"
    /\ calls' = Append(calls, <<"close", run_i>>)
    /\ UNCHANGED <<tasks, results, run_i, run_results, outcomes, entry>>

\* Lines 54-60: the loop is over; the report is stamped, stored and returned.
run_return ==
    /\ run_pc = "loop"
    /\ run_i > Len(tasks)
    /\ results' = [run_results EXCEPT !.completed = TRUE]
    /\ run_pc' = "completed"
    /\ UNCHANGED <<tasks, run_i, run_results, outcomes, calls, entry>>

\* The entry points without `self.tasks = []`: the engines are added to
\* the list the instance already holds.
EntryPoint_KeepsList(list) ==
    /\ NotRunning
    /\ tasks' = tasks \o list
    /\ RunBegin(tasks \o list)
    /\ UNCHANGED results

\* The convenience entry points: reset the list, add the engines, run().
EntryPoint(list) ==
    /\ NotRunning
    /\ tasks' = list
    /\ RunBegin(list)
    /\ UNCHANGED results

run_analytics_pipeline ==
    /\ EntryPoint(<<"DiscountAnalysisTask", "PriceComparisonTask", "PriceAlertTask">>)
    /\ entry' = "run_analytics_pipeline"

run_discount_analysis ==
    /\ EntryPoint(<<"DiscountAnalysisTask">>)
    /\ entry' = "run_discount_analysis"

run_price_comparison ==
    /\ EntryPoint(<<"PriceComparisonTask">>)
    /\ entry' = "run_price_comparison"

run_price_alerts ==
    /\ EntryPoint(<<"PriceAlertTask">>)
    /\ entry' = "run_price_alerts"

(***************************************************************************)
(* The store: clock, source-links, price observations                      *)
(***************************************************************************)
TicksPerDay == 2
Days(d) == d * TicksPerDay
\* date.today(): the calendar day of an instant.
DateOf(t) == t \div TicksPerDay

LinkIds == 1 .. NumLinks
\* Links 1 and 2 list product 1, links 3 and 4 product 2, ...
ProductOf(ps) == (ps + 1) \div 2
ProductIds == {ProductOf(ps) : ps \in LinkIds}
PriceValues == 1 .. MaxPrice
\* original_price is nullable and, unlike price, not constrained to be > 0.
\* (original_price, discount_percentage) of an observation: a claimed
\* discount comes with an original price.
ListedPrice == MaxPrice + 1
ClaimedDiscount == 20
Markdowns == {<<None, None>>, <<0, None>>, <<ListedPrice, None>>,
              <<ListedPrice, ClaimedDiscount>>}

StoreInit ==
    /\ now = 0
    /\ ticks = 0
    /\ product_sources = [ps \in LinkIds |->
            [product_id |-> ProductOf(ps), source_id |-> ps, is_active |-> TRUE]]
    /\ prices = {}

\* The clock advances by d ticks.
Tick(d) ==
    /\ ticks < MaxTicks
    /\ ticks' = ticks + 1
    /\ now' = now + d
    /\ UNCHANGED <<product_sources, prices>>

\* A scraper appends an observation stamped with the current instant.  Two
\* observations of one source-link never carry the same timestamp.
insert_price(ps, price, original_price, discount_percentage) ==
    /\ Cardinality(prices) < MaxPrices
    /\ \A o \in prices : ~(o.product_source_id = ps /\ o.scraped_at = now)
    /\ prices' = prices \cup {[product_source_id |-> ps, price |-> price,
                               original_price |-> original_price,
                               discount_percentage |-> discount_percentage,
                               scraped_at |-> now]}
    /\ UNCHANGED <<now, ticks, product_sources>>

\* A source-link is activated or deactivated (column is_active).
set_active(ps, b) ==
    /\ product_sources[ps].is_active # b
    /\ product_sources' = [product_sources EXCEPT ![ps].is_active = b]
    /\ UNCHANGED <<now, ticks, prices>>

\* Query(Price).filter(product_source_id == ps).order_by(scraped_at.desc())
\* .first(): the set holding the latest observation of ps, {} when none.
get_latest_price(ps) ==
    {o \in prices : /\ o.product_source_id = ps
                    /\ \A q \in prices : q.product_source_id = ps
                                            => q.scraped_at <= o.scraped_at}

SetMin(S) == CHOOSE x \in S : \A y \in S : x <= y
SetMax(S) == CHOOSE x \in S : \A y \in S : x >= y

RECURSIVE SumPrices(_)
SumPrices(S) ==
    IF S = {} THEN 0
    ELSE LET o == CHOOSE x \in S : TRUE IN o.price + SumPrices(S \ {o})

RECURSIVE Factorial(_)
Factorial(n) == IF n <= 1 THEN 1 ELSE n * Factorial(n - 1)
\* An average of at most MaxPrices whole prices is a whole number of
\* 1/AvgScale units: averages are kept exactly, in those units.
AvgScale == Factorial(MaxPrices)

\* n / d rounded to the nearest integer, halves away from zero (n, d >= 0).
RoundDiv(n, d) == (2 * n + d) \div (2 * d)

\* The filter without its source-link condition: every observation with
\* scraped_at >= now - days.
Window_AnyLink(ps, days) ==
    {o \in prices : o.scraped_at >= now - Days(days)}

\* The observations of ps with scraped_at >= now - days.
Window(ps, days) ==
    {o \in prices : /\ o.product_source_id = ps
                    /\ o.scraped_at >= now - Days(days)}

calculate_price_metrics(ps, days) ==
    LET W == Window(ps, days) IN
    IF W = {}
    THEN [min_price |-> None, max_price |-> None, avg_price |-> None]
    ELSE [min_price |-> SetMin({o.price : o \in W}),
          max_price |-> SetMax({o.price : o \in W}),
          avg_price |-> (SumPrices(W) * AvgScale) \div Cardinality(W)]

\* Python truthiness of an optional number: neither None nor zero.
Truthy(x) == x # None /\ x # 0

\* An average as stored in a Numeric(10, 2) column, in hundredths.
StoredAvg(a) == IF a = None THEN None ELSE RoundDiv(a * 100, AvgScale)

\* No call of a trend function has been made.
NoCall == <<>>

CallInit == trend_call = NoCall /\ analytics_call = NoCall

(***************************************************************************)
(* DiscountAnalysisTask                                                    *)
(***************************************************************************)
\* Lines 129-137 compare binary floating-point numbers: float() of the three
\* averages, the products avg_60 * 1.05 and avg_60 * 0.95 and the quotient
\* abs(avg_30 - avg_60) / avg_60 are each rounded to a double.  Where the
\* exact values of the two sides differ, the comparison has the exact
\* outcome; where they are equal, the roundings decide it and it can come out
\* either way (float 3.15 > 3.0 * 1.05 is false and abs(3.15 - 3.0) / 3.0 <
\* 0.05 is true, while abs(1.05 - 1.0) / 1.0 < 0.05 is false).
FloatLess(x, y) == IF x = y THEN BOOLEAN ELSE {x < y}

\* The labels a call can return.  The averages are numbers of one unit.
_determine_trend(metrics_30d, metrics_60d, metrics_90d) ==
    IF ~(/\ Truthy(metrics_30d.avg_price)
         /\ Truthy(metrics_60d.avg_price)
         /\ Truthy(metrics_90d.avg_price))
    THEN {"unknown"}
    ELSE LET avg_30 == metrics_30d.avg_price
             avg_60 == metrics_60d.avg_price
             diff == IF avg_30 >= avg_60 THEN avg_30 - avg_60 ELSE avg_60 - avg_30
         IN  {IF above THEN "increasing"
              ELSE IF below THEN "decreasing"
              ELSE IF near THEN "stable"
              ELSE "volatile" :
                  <<above, below, near>> \in
                      FloatLess(avg_60 * 105, avg_30 * 100)
                      \X FloatLess(avg_30 * 100, avg_60 * 95)
                      \X FloatLess(diff * 100, avg_60 * 5)}

NoReason == <<>>

\* Lines 63-73 with the check made only for an observation that claims a
\* discount.
is_fake_OnlyWhenClaimed(latest_price, metrics_90d) ==
    /\ Truthy(latest_price.original_price)
    /\ Truthy(latest_price.discount_percentage)
    /\ Truthy(metrics_90d.min_price)
    /\ latest_price.price > metrics_90d.min_price

\* Lines 63-73 with >= for >: a price equal to the minimum is flagged too.
is_fake_AtOrAboveMin(latest_price, metrics_90d) ==
    /\ Truthy(latest_price.original_price)
    /\ Truthy(metrics_90d.min_price)
    /\ latest_price.price >= metrics_90d.min_price

\* Lines 63-73: the flag is raised only inside the branch guarded by a truthy
\* original price and a truthy 90-day minimum, when the price exceeds it.
is_fake(latest_price, metrics_90d) ==
    /\ Truthy(latest_price.original_price)
    /\ Truthy(metrics_90d.min_price)
    /\ latest_price.price > metrics_90d.min_price

\* Lines 59-78 and 94-108: the column values computed for one source-link
\* from its latest observation and the three windows.
DiscountFieldsOf(latest_price, metrics_30d, metrics_60d, metrics_90d, trend) ==
    LET checked == Truthy(latest_price.original_price) /\ Truthy(metrics_90d.min_price)
        historical_min == metrics_90d.min_price
        fake == is_fake(latest_price, metrics_90d)
        fake_reason == IF fake THEN <<latest_price.price, historical_min>>
                       ELSE NoReason
        \* float((price - min) / min * 100); None stands for Python's None
        computable == checked /\ historical_min > 0
        actual_zero == latest_price.price = historical_min
        actual_discount == IF computable
                           THEN RoundDiv((latest_price.price - historical_min) * 10000,
                                         historical_min)
                           ELSE None
    IN  [min_price_30d |-> metrics_30d.min_price,
         max_price_30d |-> metrics_30d.max_price,
         avg_price_30d |-> StoredAvg(metrics_30d.avg_price),
         min_price_60d |-> metrics_60d.min_price,
         max_price_60d |-> metrics_60d.max_price,
         avg_price_60d |-> StoredAvg(metrics_60d.avg_price),
         min_price_90d |-> metrics_90d.min_price,
         max_price_90d |-> metrics_90d.max_price,
         avg_price_90d |-> StoredAvg(metrics_90d.avg_price),
         current_price |-> latest_price.price,
         claimed_discount_percentage |-> latest_price.discount_percentage,
         \* Decimal(str(actual_discount)) if actual_discount else None
         actual_discount_percentage |->
             IF computable /\ ~actual_zero THEN actual_discount ELSE None,
         is_fake_discount |-> fake,
         fake_discount_reason |-> fake_reason,
         price_trend |-> trend]

\* The same with the three windows read at the instant of the pass.
DiscountFields(ps, latest_price, trend) ==
    DiscountFieldsOf(latest_price, calculate_price_metrics(ps, 30),
                     calculate_price_metrics(ps, 60),
                     calculate_price_metrics(ps, 90), trend)

\* Line 78: the labels _determine_trend can return for one source-link.
TrendsOf(ps) ==
    _determine_trend(calculate_price_metrics(ps, 30),
                     calculate_price_metrics(ps, 60),
                     calculate_price_metrics(ps, 90))

\* A query result over ids, in id order.
RECURSIVE Ascending(_)
Ascending(S) ==
    IF S = {} THEN <<>>
    ELSE LET m == SetMin(S) IN <<m>> \o Ascending(S \ {m})

\* Lines 87-92 taken unconditionally: a row is added on every run.
DiscountUpsert_AlwaysInsert(table, ps, date, fields) ==
    Append(table, fields @@ [product_source_id |-> ps, analysis_date |-> date])

\* Lines 80-108 with the table emptied first: only the new row is left.
DiscountUpsert_KeepsOnlyNewRow(table, ps, date, fields) ==
    <<fields @@ [product_source_id |-> ps, analysis_date |-> date]>>

\* Lines 80-108: the row of (ps, date) is looked up; when there is none a
\* new row is added; every computed column is then assigned.
DiscountUpsert(table, ps, date, fields) ==
    LET hits == {k \in DOMAIN table : /\ table[k].product_source_id = ps
                                      /\ table[k].analysis_date = date}
        fresh == [product_source_id |-> ps, analysis_date |-> date]
    IN  IF hits = {}
        THEN Append(table, fields @@ fresh)
        ELSE [table EXCEPT ![SetMin(hits)] = fields @@ @]

DiscInit ==
    /\ disc_pc = "idle"
    /\ disc_today = 0
    /\ disc_queue = <<>>
    /\ disc_results = [analyzed |-> 0, fake_discounts_found |-> 0, errors |-> <<>>]
    /\ disc_session = "active"
    /\ disc_faulty = {}
    /\ discount_analysis = <<>>

\* execute(), lines 39-48: today is read and the active source-links queried.
disc_execute ==
    /\ disc_pc = "idle"
    /\ disc_pc' = "loop"
    /\ disc_today' = DateOf(now)
    /\ disc_queue' = Ascending({ps \in LinkIds : product_sources[ps].is_active})
    /\ disc_results' = [analyzed |-> 0, fake_discounts_found |-> 0, errors |-> <<>>]
    /\ disc_session' = "active"
    /\ disc_faulty' = {}
    /\ UNCHANGED discount_analysis

\* One pass of the for loop, lines 50-114, in which nothing raises.
disc_analyze ==
    /\ disc_pc = "loop"
    /\ disc_queue # <<>>
    /\ disc_session = "active"
    /\ LET ps == Head(disc_queue)
           latest == get_latest_price(ps)
       IN  IF latest = {}
           THEN UNCHANGED <<discount_analysis, disc_results>>
           ELSE \E trend \in TrendsOf(ps) :
                LET latest_price == CHOOSE o \in latest : TRUE
                    fields == DiscountFields(ps, latest_price, trend)
                IN  /\ discount_analysis' =
                           DiscountUpsert(discount_analysis, ps, disc_today, fields)
                    /\ disc_results' = [disc_results EXCEPT
                           !.analyzed = @ + 1,
                           !.fake_discounts_found =
                               IF fields.is_fake_discount THEN @ + 1 ELSE @]
    /\ disc_queue' = Tail(disc_queue)
    /\ UNCHANGED <<disc_pc, disc_today, disc_session, disc_faulty>>

\* The steps of a pass at which the processing of an entity may raise: while
\* computing (a Python error, before anything is added to the session), or
\* in a statement sent to the database (the commit; a failing query has the
\* same effect on the session).
FaultSteps == {"compute", "commit"}

\* Lines 116-117: the handler records the error and does not roll back.  A
\* flush that failed inside commit() has undone the pending changes and left
\* the session's transaction inactive; a Python error leaves it as it was.
SessionAfter(session, step) == IF step = "commit" THEN "inactive" ELSE session

\* A pass in which the processing of the head source-link raises at `step`;
\* lines 116-117 append the error string.  Nothing of the pass is stored.
disc_analyze_raises(step) ==
    /\ disc_pc = "loop"
    /\ disc_queue # <<>>
    /\ disc_session = "active"
    /\ get_latest_price(Head(disc_queue)) # {}
    /\ disc_results' = [disc_results EXCEPT
                           !.errors = Append(@, Head(disc_queue))]
    /\ disc_session' = SessionAfter(disc_session, step)
    /\ disc_faulty' = disc_faulty \cup {Head(disc_queue)}
    /\ disc_queue' = Tail(disc_queue)
    /\ UNCHANGED <<disc_pc, disc_today, discount_analysis>>

\* A pass on a session whose transaction is inactive: the query of lines
\* 52-54 raises, lines 116-117 append the error string.
disc_analyze_inactive ==
    /\ disc_pc = "loop"
    /\ disc_queue # <<>>
    /\ disc_session = "inactive"
    /\ disc_results' = [disc_results EXCEPT
                           !.errors = Append(@, Head(disc_queue))]
    /\ disc_queue' = Tail(disc_queue)
    /\ UNCHANGED <<disc_pc, disc_today, disc_session, disc_faulty,
                   discount_analysis>>

\* Line 119: the loop is over, the results are returned and the locals of
\* execute() are gone; the caller closes the session (Task.close), the next
\* run opens its own.
disc_return ==
    /\ disc_pc = "loop"
    /\ disc_queue = <<>>
    /\ disc_pc' = "idle"
    /\ disc_today' = 0
    /\ disc_results' = [analyzed |-> 0, fake_discounts_found |-> 0, errors |-> <<>>]
    /\ disc_session' = "active"
    /\ disc_faulty' = {}
    /\ UNCHANGED <<disc_queue, discount_analysis>>

(***************************************************************************)
(* PriceAlertTask and the alert routes                                     *)
(***************************************************************************)
\* The values a created alert may carry in its two optional thresholds.
TargetPrices == {None, 1}
DropPercentages == {None, 50}
\* The prices observed in the alert model: halving steps around the target.
AlertPrices == {1, 2, 4}

\* POST /alerts: a row with the column defaults.
create_alert(product_id, target_price, price_drop_percentage) ==
    /\ Len(price_alerts) < MaxAlerts
    /\ price_alerts' = Append(price_alerts,
            [product_id |-> product_id, target_price |-> target_price,
             price_drop_percentage |-> price_drop_percentage,
             is_active |-> TRUE, last_triggered_at |-> None,
             trigger_count |-> 0])
    /\ UNCHANGED <<alert_pc, alert_queue, alert_results, alert_session,
                   alert_faulty>>

\* PATCH /alerts/{id}/activate and /deactivate.
set_alert_active_status(id, is_active) ==
    /\ id \in DOMAIN price_alerts
    /\ price_alerts[id].is_active # is_active
    /\ price_alerts' = [price_alerts EXCEPT ![id].is_active = is_active]
    /\ UNCHANGED <<alert_pc, alert_queue, alert_results, alert_session,
                   alert_faulty>>

\* Lines 237-240: the observations of the active source-links of a product.
latest_prices(product_id) ==
    {o \in prices :
        /\ product_sources[o.product_source_id].product_id = product_id
        /\ product_sources[o.product_source_id].is_active}

\* Lines 245-249: the first observation of each source-link in descending
\* scraped_at order, that is its latest one.
source_prices(product_id) ==
    {o \in latest_prices(product_id) :
        \A q \in latest_prices(product_id) :
            q.product_source_id = o.product_source_id
                => q.scraped_at <= o.scraped_at}

\* Lines 253-257 with < for <=: a price equal to the target does not count.
TargetReached_Strict(alert, current) ==
    /\ Truthy(alert.target_price)
    /\ \E price \in current : price.price < alert.target_price

\* Lines 253-257: some latest price is at or below a truthy target price.
TargetReached(alert, current) ==
    /\ Truthy(alert.target_price)
    /\ \E price \in current : price.price <= alert.target_price

\* Lines 260-264: the possible results of the query for the observations of
\* the product (any source-link, active or not) made at or before
\* now - 7 days, latest first, cut after n rows.  Rows with equal timestamps
\* come in an order the query does not fix: every admissible cut is a result.
old_prices(product_id, n) ==
    LET old == {o \in prices :
                   /\ product_sources[o.product_source_id].product_id = product_id
                   /\ o.scraped_at <= now - Days(7)}
        m == IF n < Cardinality(old) THEN n ELSE Cardinality(old)
    IN  {S \in SUBSET old :
            /\ Cardinality(S) = m
            /\ \A o \in S, q \in old \ S : o.scraped_at >= q.scraped_at}

\* Lines 266-276 without the guard of line 271: a source-link that has no row
\* among the old ones ends the evaluation.
DropReached_NeedsEveryLink(alert, current, old) ==
    /\ \A new_price \in current :
          \E old_price \in old :
              old_price.product_source_id = new_price.product_source_id
    /\ \E new_price \in current :
          \E old_price \in old :
              /\ old_price.product_source_id = new_price.product_source_id
              /\ \A q \in old : q.product_source_id = old_price.product_source_id
                                    => q.scraped_at <= old_price.scraped_at
              /\ (old_price.price - new_price.price) * 100
                     >= alert.price_drop_percentage * old_price.price

\* Lines 266-276: some source-link's latest price lies at least the
\* configured percentage below the first row of that link among the old rows.
DropReached(alert, current, old) ==
    \E new_price \in current :
        \E old_price \in old :
            /\ old_price.product_source_id = new_price.product_source_id
            /\ \A q \in old : q.product_source_id = old_price.product_source_id
                                  => q.scraped_at <= old_price.scraped_at
            /\ (old_price.price - new_price.price) * 100
                   >= alert.price_drop_percentage * old_price.price

\* Lines 278-280 with the alert switched off once it has fired.
Trigger_Deactivates(alert) ==
    [alert EXCEPT !.last_triggered_at = now, !.trigger_count = @ + 1,
                  !.is_active = FALSE]

\* Lines 278-280 with the target price cleared once it has been reached.
Trigger_ClearsTarget(alert) ==
    [alert EXCEPT !.last_triggered_at = now, !.trigger_count = @ + 1,
                  !.target_price = None]

\* Lines 278-280: the bookkeeping of an alert that fired.
Trigger(alert) ==
    [alert EXCEPT !.last_triggered_at = now, !.trigger_count = @ + 1]

AlertInit ==
    /\ alert_pc = "idle"
    /\ alert_queue = <<>>
    /\ alert_results = [checked |-> 0, triggered |-> 0, errors |-> <<>>]
    /\ alert_session = "active"
    /\ alert_faulty = {}
    /\ price_alerts = <<>>

\* execute(), lines 225-233: the active alerts are queried.
alert_execute ==
    /\ alert_pc = "idle"
    /\ alert_pc' = "loop"
    /\ alert_queue' = Ascending({id \in DOMAIN price_alerts :
                                     price_alerts[id].is_active})
    /\ alert_results' = [checked |-> 0, triggered |-> 0, errors |-> <<>>]
    /\ alert_session' = "active"
    /\ alert_faulty' = {}
    /\ UNCHANGED price_alerts

\* Lines 251-276: whether the alert triggers, given its product's latest
\* prices and the old rows the query returned.
Triggered(alert, current, old) ==
    \/ TargetReached(alert, current)
    \/ /\ Truthy(alert.price_drop_percentage)
       /\ DropReached(alert, current, old)

\* One pass of the for loop, lines 235-284, in which nothing raises.
alert_check ==
    /\ alert_pc = "loop"
    /\ alert_queue # <<>>
    /\ alert_session = "active"
    /\ LET id == Head(alert_queue)
           alert == price_alerts[id]
           current == source_prices(alert.product_id)
       IN  IF latest_prices(alert.product_id) = {}
           THEN UNCHANGED <<price_alerts, alert_results>>
           ELSE \E old \in old_prices(alert.product_id, Cardinality(current)) :
                  LET triggered == Triggered(alert, current, old)
                  IN  /\ price_alerts' =
                             IF triggered
                             THEN [price_alerts EXCEPT ![id] = Trigger(alert)]
                             ELSE price_alerts
                      /\ alert_results' = [alert_results EXCEPT
                             !.checked = @ + 1,
                             !.triggered = IF triggered THEN @ + 1 ELSE @]
    /\ alert_queue' = Tail(alert_queue)
    /\ UNCHANGED <<alert_pc, alert_session, alert_faulty>>

\* A pass in which the evaluation of the head alert raises at `step` (the
\* commit of line 281 is reached only by an alert that triggers); lines
\* 286-287 append the error string, the alert is not counted as checked and
\* the failed commit has undone its bookkeeping.
alert_check_raises(step) ==
    /\ alert_pc = "loop"
    /\ alert_queue # <<>>
    /\ alert_session = "active"
    /\ LET id == Head(alert_queue)
           alert == price_alerts[id]
           current == source_prices(alert.product_id)
       IN  /\ latest_prices(alert.product_id) # {}
           /\ step = "commit" =>
                 \E old \in old_prices(alert.product_id, Cardinality(current)) :
                     Triggered(alert, current, old)
           /\ alert_results' = [alert_results EXCEPT !.errors = Append(@, id)]
           /\ alert_faulty' = alert_faulty \cup {id}
    /\ alert_session' = SessionAfter(alert_session, step)
    /\ alert_queue' = Tail(alert_queue)
    /\ UNCHANGED <<alert_pc, price_alerts>>

\* A pass on a session whose transaction is inactive: the query of lines
\* 237-240 raises, lines 286-287 append the error string.
alert_check_inactive ==
    /\ alert_pc = "loop"
    /\ alert_queue # <<>>
    /\ alert_session = "inactive"
    /\ alert_results' = [alert_results EXCEPT
                            !.errors = Append(@, Head(alert_queue))]
    /\ alert_queue' = Tail(alert_queue)
    /\ UNCHANGED <<alert_pc, alert_session, alert_faulty, price_alerts>>

\* Line 289: the loop is over, the results are returned and the locals of
\* execute() are gone; the caller closes the session.
alert_return ==
    /\ alert_pc = "loop"
    /\ alert_queue = <<>>
    /\ alert_pc' = "idle"
    /\ alert_results' = [checked |-> 0, triggered |-> 0, errors |-> <<>>]
    /\ alert_session' = "active"
    /\ alert_faulty' = {}
    /\ UNCHANGED <<alert_queue, price_alerts>>

(***************************************************************************)
(* PriceComparisonTask                                                     *)
(***************************************************************************)
\* Lines 158-161 without the is_active filter: every source-link of a product.
ActiveLinksOf_AllLinks(product_id) ==
    {ps \in LinkIds : product_sources[ps].product_id = product_id}

\* Lines 158-161: the active source-links of a product.
ActiveLinksOf(product_id) ==
    {ps \in LinkIds : /\ product_sources[ps].product_id = product_id
                      /\ product_sources[ps].is_active}

\* Lines 152-154 with "> 0": every product with an active source-link.
ComparableProducts_AnyActive ==
    {p \in ProductIds : Cardinality(ActiveLinksOf(p)) > 0}

\* Lines 152-154: the products joined to their active source-links, grouped,
\* having more than one of them.
ComparableProducts ==
    {p \in ProductIds : Cardinality(ActiveLinksOf(p)) > 1}

RECURSIVE SumOf(_, _)
\* The sum of f over the finite set S.
SumOf(f, S) ==
    IF S = {} THEN 0
    ELSE LET x == CHOOSE y \in S : TRUE IN f[x] + SumOf(f, S \ {x})

\* Lines 179-185: the population standard deviation of the latest prices, as
\* stored in a Numeric(10, 2) column, in hundredths.
StdDev(L) ==
    LET n == Cardinality(L)
        sum == SumOf([o \in L |-> o.price], L)
        squares == SumOf([o \in L |-> o.price * o.price], L)
        V == n * squares - sum * sum
    IN  CHOOSE r \in 0 .. 100 * SetMax(AlertPrices \cup PriceValues) :
            /\ r = 0 \/ (2 * r - 1) * (2 * r - 1) * n * n <= 40000 * V
            /\ 40000 * V < (2 * r + 1) * (2 * r + 1) * n * n

\* Lines 189-209 without the lookup: a row is added in every pass.
ComparisonUpsert_AlwaysInsert(table, product_id, date, fields) ==
    Append(table, fields @@ [product_id |-> product_id, comparison_date |-> date])

\* Lines 189-209: the row of (product, date) is looked up, added when there
\* is none, and every computed column assigned.
ComparisonUpsert(table, product_id, date, fields) ==
    LET hits == {k \in DOMAIN table : /\ table[k].product_id = product_id
                                      /\ table[k].comparison_date = date}
        fresh == [product_id |-> product_id, comparison_date |-> date]
    IN  IF hits = {}
        THEN Append(table, fields @@ fresh)
        ELSE [table EXCEPT ![SetMin(hits)] = fields @@ @]

CmpInit ==
    /\ cmp_pc = "idle"
    /\ cmp_today = 0
    /\ cmp_queue = <<>>
    /\ cmp_results = [compared |-> 0, errors |-> <<>>]
    /\ cmp_session = "active"
    /\ cmp_faulty = {}
    /\ price_comparisons = <<>>

\* execute(), lines 145-154: today is read and the products selected.
cmp_execute ==
    /\ cmp_pc = "idle"
    /\ cmp_pc' = "loop"
    /\ cmp_today' = DateOf(now)
    /\ cmp_queue' = Ascending(ComparableProducts)
    /\ cmp_results' = [compared |-> 0, errors |-> <<>>]
    /\ cmp_session' = "active"
    /\ cmp_faulty' = {}
    /\ UNCHANGED price_comparisons

\* One pass of the for loop, lines 156-212.  Among source-links with the
\* same lowest price, min() keeps the first of a query result whose order
\* the query does not fix: any of them may become the best one.
cmp_compare ==
    /\ cmp_pc = "loop"
    /\ cmp_queue # <<>>
    /\ cmp_session = "active"
    /\ LET product_id == Head(cmp_queue)
           latest == UNION {get_latest_price(ps) : ps \in ActiveLinksOf(product_id)}
       IN  IF latest = {}
           THEN UNCHANGED <<price_comparisons, cmp_results>>
           ELSE LET min_price == SetMin({o.price : o \in latest})
                    max_price == SetMax({o.price : o \in latest})
                IN  \E best_price_record \in {o \in latest : o.price = min_price} :
                      /\ price_comparisons' =
                           ComparisonUpsert(price_comparisons, product_id, cmp_today,
                             [best_price |-> min_price,
                              best_price_source_id |->
                                  product_sources[best_price_record.product_source_id].source_id,
                              best_price_product_source_id |->
                                  best_price_record.product_source_id,
                              min_price |-> min_price,
                              max_price |-> max_price,
                              price_variance |-> StdDev(latest),
                              source_count |-> Cardinality(latest)])
                      /\ cmp_results' = [cmp_results EXCEPT !.compared = @ + 1]
    /\ cmp_queue' = Tail(cmp_queue)
    /\ UNCHANGED <<cmp_pc, cmp_today, cmp_session, cmp_faulty>>

\* A pass in which the comparison of the head product raises at `step`;
\* lines 214-215 append the error string.  Nothing of the pass is stored.
cmp_compare_raises(step) ==
    /\ cmp_pc = "loop"
    /\ cmp_queue # <<>>
    /\ cmp_session = "active"
    /\ UNION {get_latest_price(ps) : ps \in ActiveLinksOf(Head(cmp_queue))} # {}
    /\ cmp_results' = [cmp_results EXCEPT !.errors = Append(@, Head(cmp_queue))]
    /\ cmp_session' = SessionAfter(cmp_session, step)
    /\ cmp_faulty' = cmp_faulty \cup {Head(cmp_queue)}
    /\ cmp_queue' = Tail(cmp_queue)
    /\ UNCHANGED <<cmp_pc, cmp_today, price_comparisons>>

\* A pass on a session whose transaction is inactive: the query of lines
\* 158-161 raises, lines 214-215 append the error string.
cmp_compare_inactive ==
    /\ cmp_pc = "loop"
    /\ cmp_queue # <<>>
    /\ cmp_session = "inactive"
    /\ cmp_results' = [cmp_results EXCEPT !.errors = Append(@, Head(cmp_queue))]
    /\ cmp_queue' = Tail(cmp_queue)
    /\ UNCHANGED <<cmp_pc, cmp_today, cmp_session, cmp_faulty, price_comparisons>>

\* Line 217: the loop is over, the results are returned and the locals of
\* execute() are gone; the caller closes the session.
cmp_return ==
    /\ cmp_pc = "loop"
    /\ cmp_queue = <<>>
    /\ cmp_pc' = "idle"
    /\ cmp_today' = 0
    /\ cmp_results' = [compared |-> 0, errors |-> <<>>]
    /\ cmp_session' = "active"
    /\ cmp_faulty' = {}
    /\ UNCHANGED <<cmp_queue, price_comparisons>>

(***************************************************************************)
(* PriceAnalytics                                                          *)
(***************************************************************************)
\* Lines 39-94 on the prices of the window in scraped_at order, in
\* hundredths.  With x = 0 .. n-1 and sum the sum of the prices,
\*   S_xy = 2n * numerator and S_xx = 4 * denominator  (lines 52-53),
\* so slope = 2 * S_xy / (n * S_xx) and, for a non-zero average,
\* normalized_slope = 200 * S_xy / (S_xx * sum).  The comparisons of lines
\* 59-64 are made on doubles (FloatLess).  Of the n >= 2 result, the fields
\* that are exact in hundredths are kept; slope is in 1/10000.
get_price_trend(price_values) ==
    LET n == Len(price_values)
        X == 1 .. n
        sum == SumOf(price_values, X)
        S_xy == SumOf([i \in X |-> (2 * (i - 1) - (n - 1)) * (n * price_values[i] - sum)], X)
        S_xx == SumOf([i \in X |-> (2 * (i - 1) - (n - 1)) * (2 * (i - 1) - (n - 1))], X)
        range == {price_values[i] : i \in X}
        common == [data_points |-> n,
                   current_price |-> price_values[n],
                   min_price |-> SetMin(range),
                   max_price |-> SetMax(range),
                   price_change |-> price_values[n] - price_values[1]]
    IN  IF n = 0 THEN {[trend |-> "unknown", data_points |-> 0]}
        ELSE IF n >= 2
        THEN {[trend |-> IF above THEN "increasing"
                         ELSE IF below THEN "decreasing"
                         ELSE "stable",
               slope |-> (200 * S_xy) \div (n * S_xx)] @@ common :
                 <<above, below>> \in
                     IF sum # 0
                     THEN FloatLess(S_xx * sum, 200 * S_xy)
                          \X FloatLess(200 * S_xy, 0 - S_xx * sum)
                     ELSE {<<FALSE, FALSE>>}}
        ELSE {[trend |-> "insufficient_data", slope |-> 0,
               normalized_slope |-> 0, volatility |-> 0] @@ common}

(***************************************************************************)
(* DiscountAnalysisTask: the queries of one pass, one at a time            *)
(***************************************************************************)
\* The window lengths the discount task asks for.
WindowDays == {30, 60, 90}

\* Between two passes no query of a pass is outstanding.
NoPass == [pc |-> "latest", latest_price |-> None, metrics_30d |-> None,
           metrics_60d |-> None, metrics_90d |-> None]

PassInit == disc_pass = NoPass

\* Lines 52-57: the latest observation of the head source-link is queried;
\* without one the pass ends (`continue`).
disc_query_latest ==
    /\ disc_pc = "loop"
    /\ disc_queue # <<>>
    /\ disc_pass.pc = "latest"
    /\ LET latest == get_latest_price(Head(disc_queue))
       IN  IF latest = {}
           THEN /\ disc_queue' = Tail(disc_queue)
                /\ UNCHANGED disc_pass
           ELSE /\ disc_pass' = [disc_pass EXCEPT
                       !.pc = "metrics_30d",
                       !.latest_price = CHOOSE o \in latest : TRUE]
                /\ UNCHANGED disc_queue
    /\ UNCHANGED <<disc_pc, disc_today, disc_results, disc_session, disc_faulty,
                   discount_analysis>>

\* Lines 59-61: calculate_price_metrics queries one window, with the cutoff
\* taken from the clock at that moment.
disc_query_metrics(days) ==
    /\ disc_pc = "loop"
    /\ disc_queue # <<>>
    /\ \/ /\ days = 30
          /\ disc_pass.pc = "metrics_30d"
          /\ disc_pass' = [disc_pass EXCEPT
                 !.pc = "metrics_60d",
                 !.metrics_30d = calculate_price_metrics(Head(disc_queue), 30)]
       \/ /\ days = 60
          /\ disc_pass.pc = "metrics_60d"
          /\ disc_pass' = [disc_pass EXCEPT
                 !.pc = "metrics_90d",
                 !.metrics_60d = calculate_price_metrics(Head(disc_queue), 60)]
       \/ /\ days = 90
          /\ disc_pass.pc = "metrics_90d"
          /\ disc_pass' = [disc_pass EXCEPT
                 !.pc = "store",
                 !.metrics_90d = calculate_price_metrics(Head(disc_queue), 90)]
    /\ UNCHANGED disc_vars

\* Lines 63-114: the columns are computed from what the queries returned,
\* the row of (ps, today) is looked up or added, assigned and committed.
disc_store ==
    /\ disc_pc = "loop"
    /\ disc_queue # <<>>
    /\ disc_pass.pc = "store"
    /\ \E trend \in _determine_trend(disc_pass.metrics_30d, disc_pass.metrics_60d,
                                      disc_pass.metrics_90d) :
          LET fields == DiscountFieldsOf(disc_pass.latest_price,
                            disc_pass.metrics_30d, disc_pass.metrics_60d,
                            disc_pass.metrics_90d, trend)
          IN  /\ discount_analysis' =
                     DiscountUpsert(discount_analysis, Head(disc_queue),
                                    disc_today, fields)
              /\ disc_results' = [disc_results EXCEPT
                     !.analyzed = @ + 1,
                     !.fake_discounts_found =
                         IF fields.is_fake_discount THEN @ + 1 ELSE @]
    /\ disc_queue' = Tail(disc_queue)
    /\ disc_pass' = NoPass
    /\ UNCHANGED <<disc_pc, disc_today, disc_session, disc_faulty>>

(***************************************************************************)
(* PriceAnalytics.get_best_deals                                           *)
(***************************************************************************)
\* Lines 257-262: the snapshots with actual_discount_percentage >=
\* min_discount (a null never compares) and is_fake_discount false.
BestDealRows(min_discount) ==
    {k \in DOMAIN discount_analysis :
        /\ discount_analysis[k].actual_discount_percentage # None
        /\ discount_analysis[k].actual_discount_percentage >= min_discount
        /\ discount_analysis[k].is_fake_discount = FALSE}

\* order_by(desc(actual_discount_percentage)): the orders the query may
\* return the rows in; rows with equal discounts come in any order.
BestDealOrders(rows) ==
    {f \in [1 .. Cardinality(rows) -> rows] :
        /\ \A i, j \in DOMAIN f : i # j => f[i] # f[j]
        /\ \A i, j \in DOMAIN f :
              i < j => discount_analysis[f[i]].actual_discount_percentage
                          >= discount_analysis[f[j]].actual_discount_percentage}

\* Lines 264-293: the loop over the rows; a row of a product already seen
\* is skipped and the loop ends when `limit` deals are collected.
RECURSIVE CollectDeals(_, _, _, _)
CollectDeals(analyses, deals, seen_products, limit) ==
    IF analyses = <<>> THEN deals
    ELSE LET analysis == discount_analysis[Head(analyses)]
             ps == product_sources[analysis.product_source_id]
         IN  IF ps.product_id \in seen_products
             THEN CollectDeals(Tail(analyses), deals, seen_products, limit)
             ELSE LET more == Append(deals,
                                [product_id |-> ps.product_id,
                                 current_price |-> analysis.current_price,
                                 original_price |-> analysis.avg_price_90d,
                                 discount_pct |-> analysis.actual_discount_percentage,
                                 price_trend |-> analysis.price_trend,
                                 analysis_date |-> analysis.analysis_date])
                  IN  IF Len(more) >= limit THEN more
                      ELSE CollectDeals(Tail(analyses), more,
                                        seen_products \cup {ps.product_id}, limit)

\* get_best_deals(limit, min_discount): the lists it can return; the query
\* is cut at limit * 2 rows.
get_best_deals(limit, min_discount) ==
    {CollectDeals(SubSeq(f, 1, IF Len(f) < limit * 2 THEN Len(f) ELSE limit * 2),
                  <<>>, {}, limit) :
        f \in BestDealOrders(BestDealRows(min_discount))}

\* The arguments get_best_deals is called with: limits, and minimum
\* discounts in hundredths of a per cent (the default is 10.0).
DealLimits == 0 .. 2
DealMinDiscounts == {-10000, 0, 1000, 10000}

(***************************************************************************)
(* get_or_create_product_source                                            *)
(***************************************************************************)
\* Strings are numbered: 0 stands for the empty string, None for no value.
SourceIds == {1, 2}
SourceProductIds == {1, 2}
LinkUrls == {1, 2}
LinkNames == {None, 0, 1}

LinkInit ==
    /\ link_table = <<>>
    /\ link_call = NoCall

\* Lines 90-95: the ids of the rows with this source_id and
\* source_product_id.
LinkHits(table, source_id, source_product_id) ==
    {k \in DOMAIN table : /\ table[k].source_id = source_id
                          /\ table[k].source_product_id = source_product_id}

\* Lines 107-118 alone: a row is added whatever the table holds.
LinkUpsert_AlwaysCreates(table, product_id, source_id, source_product_id, source_product_url, source_product_name, at) ==
    Append(table, [product_id |-> product_id, source_id |-> source_id,
                   source_product_id |-> source_product_id,
                   source_product_url |-> source_product_url,
                   source_product_name |-> source_product_name,
                   is_active |-> TRUE, last_seen_at |-> at])

\* Lines 90-118: the table after the call.  The first row of the key gets
\* the URL, the name when one is passed, last_seen_at and is_active; with
\* no such row one is added (is_active takes the column default, true).
LinkUpsert(table, product_id, source_id, source_product_id, source_product_url, source_product_name, at) ==
    LET hits == LinkHits(table, source_id, source_product_id) IN
    IF hits # {}
    THEN [table EXCEPT ![SetMin(hits)] =
            [@ EXCEPT !.source_product_url = source_product_url,
                      !.source_product_name =
                          IF Truthy(source_product_name)
                          THEN source_product_name ELSE @,
                      !.last_seen_at = at,
                      !.is_active = TRUE]]
    ELSE Append(table, [product_id |-> product_id, source_id |-> source_id,
                        source_product_id |-> source_product_id,
                        source_product_url |-> source_product_url,
                        source_product_name |-> source_product_name,
                        is_active |-> TRUE, last_seen_at |-> at])

\* One call of the helper; it returns the row it updated or added.
get_or_create_product_source(product_id, source_id, source_product_id, source_product_url, source_product_name) ==
    LET hits == LinkHits(link_table, source_id, source_product_id) IN
    /\ hits # {} \/ Len(link_table) < MaxLinkRows
    /\ link_table' = LinkUpsert(link_table, product_id, source_id,
                                source_product_id, source_product_url,
                                source_product_name, now)
    /\ link_call' = [product_id |-> product_id, source_id |-> source_id,
                     source_product_id |-> source_product_id,
                     source_product_url |-> source_product_url,
                     source_product_name |-> source_product_name,
                     returned |-> IF hits # {} THEN SetMin(hits)
                                  ELSE Len(link_table) + 1]

\* Column is_active of a link is cleared (the link is deactivated).
link_deactivate(k) ==
    /\ k \in DOMAIN link_table
    /\ link_table[k].is_active
    /\ link_table' = [link_table EXCEPT ![k].is_active = FALSE]
    /\ UNCHANGED link_call

(***************************************************************************)
(* Two runs of one snapshot engine at the same time                        *)
(***************************************************************************)
\* Each run has its own engine object and database session; the tables
\* are shared.  A query sees the rows committed so far.
RunIds == 1 .. NumRuns
SnapshotEngines == {"DiscountAnalysisTask", "PriceComparisonTask"}

NoRow == [entity |-> 0, existing |-> 0, fields |-> <<>>]
NoRun == [engine |-> "none", pc |-> "idle", today |-> 0, queue |-> <<>>,
          session |-> "active", row |-> NoRow,
          results |-> [stored |-> 0, errors |-> <<>>]]

RunsInit == runs = [r \in RunIds |-> NoRun]

\* The table an engine writes its snapshots to.
SnapshotTable(engine) ==
    IF engine = "DiscountAnalysisTask" THEN discount_analysis ELSE price_comparisons

\* The key columns of a snapshot of an entity on a date.
SnapshotKey(engine, entity, date) ==
    IF engine = "DiscountAnalysisTask"
    THEN [product_source_id |-> entity, analysis_date |-> date]
    ELSE [product_id |-> entity, comparison_date |-> date]

\* tasks.py 80-85 and 189-194: the rows of the table with this key.
SnapshotHits(engine, table, entity, date) ==
    {k \in DOMAIN table :
        \A c \in DOMAIN SnapshotKey(engine, entity, date) :
            table[k][c] = SnapshotKey(engine, entity, date)[c]}

\* The unique constraints without effect: an INSERT of a key the table
\* already holds is accepted.
UniqueViolation_Never(engine, table, entity, date) == FALSE

\* uq_discount_analysis and uq_price_comparison: an INSERT of a key the
\* table already holds is rejected with an IntegrityError.
UniqueViolation(engine, table, entity, date) ==
    SnapshotHits(engine, table, entity, date) # {}

\* tasks.py 52-78 and 163-187: the latest observations of an entity (of the
\* source-link, or of the active source-links of the product).
RunObservations(engine, entity) ==
    IF engine = "DiscountAnalysisTask" THEN get_latest_price(entity)
    ELSE UNION {get_latest_price(ps) : ps \in ActiveLinksOf(entity)}

\* tasks.py 59-78, 94-108 and 179-209: the column values a pass may compute.
RunFields(engine, entity) ==
    LET latest == RunObservations(engine, entity) IN
    IF engine = "DiscountAnalysisTask"
    THEN {DiscountFields(entity, CHOOSE o \in latest : TRUE, trend) :
             trend \in TrendsOf(entity)}
    ELSE LET min_price == SetMin({o.price : o \in latest})
             max_price == SetMax({o.price : o \in latest})
         IN  {[best_price |-> min_price,
               best_price_source_id |->
                   product_sources[best_price_record.product_source_id].source_id,
               best_price_product_source_id |-> best_price_record.product_source_id,
               min_price |-> min_price,
               max_price |-> max_price,
               price_variance |-> StdDev(latest),
               source_count |-> Cardinality(latest)] :
                 best_price_record \in {o \in latest : o.price = min_price}}

\* execute() of a run, tasks.py 39-48 and 145-154: today and the entities.
race_execute(r, engine) ==
    /\ runs[r].pc \in {"idle", "returned"}
    /\ runs' = [runs EXCEPT ![r] = [NoRun EXCEPT
            !.engine = engine,
            !.pc = "lookup",
            !.today = DateOf(now),
            !.queue = IF engine = "DiscountAnalysisTask"
                      THEN Ascending({ps \in LinkIds : product_sources[ps].is_active})
                      ELSE Ascending(ComparableProducts)]]
    /\ UNCHANGED <<discount_analysis, price_comparisons>>

\* tasks.py 52-92 and 163-200: the entity's observations are read, the
\* columns computed and the row of (entity, today) looked up; without one a
\* new row is added to the session.  An entity without observations is
\* skipped.
race_lookup(r) ==
    /\ runs[r].pc = "lookup"
    /\ runs[r].queue # <<>>
    /\ runs[r].session = "active"
    /\ LET engine == runs[r].engine
           entity == Head(runs[r].queue)
           hits == SnapshotHits(engine, SnapshotTable(engine), entity, runs[r].today)
       IN  IF RunObservations(engine, entity) = {}
           THEN runs' = [runs EXCEPT ![r].queue = Tail(@)]
           ELSE \E fields \in RunFields(engine, entity) :
                   runs' = [runs EXCEPT
                       ![r].pc = "commit",
                       ![r].row = [entity |-> entity,
                                   existing |-> IF hits = {} THEN 0 ELSE SetMin(hits),
                                   fields |-> fields]]
    /\ UNCHANGED <<discount_analysis, price_comparisons>>

\* tasks.py 110-117 and 211-215: commit() sends the INSERT or the UPDATE.
\* An INSERT of a key another run has committed meanwhile raises; the
\* handler appends the error of the entity, and the loop goes on with a
\* session whose transaction is inactive.
race_commit(r) ==
    /\ runs[r].pc = "commit"
    /\ LET engine == runs[r].engine
           table == SnapshotTable(engine)
           row == runs[r].row
           rejected == /\ row.existing = 0
                       /\ UniqueViolation(engine, table, row.entity, runs[r].today)
           written == IF row.existing = 0
                      THEN Append(table, row.fields @@
                               SnapshotKey(engine, row.entity, runs[r].today))
                      ELSE [table EXCEPT ![row.existing] = row.fields @@ @]
       IN  /\ runs' = [runs EXCEPT
                  ![r].pc = "lookup",
                  ![r].queue = Tail(@),
                  ![r].row = NoRow,
                  ![r].session = IF rejected THEN "inactive" ELSE @,
                  ![r].results = IF rejected
                                 THEN [@ EXCEPT !.errors = Append(@, row.entity)]
                                 ELSE [@ EXCEPT !.stored = @ + 1]]
           /\ discount_analysis' =
                  IF engine = "DiscountAnalysisTask" /\ ~rejected
                  THEN written ELSE discount_analysis
           /\ price_comparisons' =
                  IF engine = "PriceComparisonTask" /\ ~rejected
                  THEN written ELSE price_comparisons

\* A pass on a session whose transaction is inactive: its first query
\* raises and the handler appends the error of the entity.
race_inactive(r) ==
    /\ runs[r].pc = "lookup"
    /\ runs[r].queue # <<>>
    /\ runs[r].session = "inactive"
    /\ runs' = [runs EXCEPT
           ![r].queue = Tail(@),
           ![r].results = [@ EXCEPT !.errors = Append(@, Head(runs[r].queue))]]
    /\ UNCHANGED <<discount_analysis, price_comparisons>>

\* tasks.py 119 and 217: the loop is over and execute() returns its results.
race_return(r) ==
    /\ runs[r].pc = "lookup"
    /\ runs[r].queue = <<>>
    /\ runs' = [runs EXCEPT ![r].pc = "returned"]
    /\ UNCHANGED <<discount_analysis, price_comparisons>>

(***************************************************************************)
(* TaskScheduler: jobs that overlap on the one PipelineOrchestrator        *)
(***************************************************************************)
\* The worker threads of the scheduler; each runs one job.
Threads == 1 .. NumThreads

\* The jobs of create_default_scheduler and the entry point each calls.
JobMethods == {"run_analytics_pipeline", "run_discount_analysis",
               "run_price_comparison", "run_price_alerts"}

\* Lines 64-67, 72-73, 78-79, 84-85: the engines an entry point adds.
EngineList(method) ==
    IF method = "run_analytics_pipeline"
    THEN <<"DiscountAnalysisTask", "PriceComparisonTask", "PriceAlertTask">>
    ELSE IF method = "run_discount_analysis" THEN <<"DiscountAnalysisTask">>
    ELSE IF method = "run_price_comparison" THEN <<"PriceComparisonTask">>
    ELSE <<"PriceAlertTask">>

NoJob == [method |-> "none", pc |-> "idle", to_add |-> <<>>, ref |-> 0,
          iter |-> 0, i |-> 0, report |-> NoReport]

\* TaskScheduler.__init__ and PipelineOrchestrator.__init__: one orchestrator
\* with an empty list (object 1) and no job running.
SchedInit ==
    /\ self_tasks = 1
    /\ lists = <<(<<>>)>>
    /\ self_results = NoReport
    /\ jobs = [t \in Threads |-> NoJob]

\* A trigger fires: the scheduler runs the job's method on thread t.
job_start(t, method) ==
    /\ jobs[t].pc = "idle"
    /\ jobs' = [jobs EXCEPT ![t] = [NoJob EXCEPT
            !.method = method, !.pc = "reset", !.to_add = EngineList(method)]]
    /\ UNCHANGED <<self_tasks, lists, self_results>>

\* `self.tasks = []`: the attribute is bound to a new list object.
job_reset(t) ==
    /\ jobs[t].pc = "reset"
    /\ lists' = Append(lists, <<>>)
    /\ self_tasks' = Len(lists) + 1
    /\ jobs' = [jobs EXCEPT ![t].pc = "add"]
    /\ UNCHANGED self_results

\* add_task, line 18: `self.tasks` is evaluated ...
job_add_load(t) ==
    /\ jobs[t].pc = "add"
    /\ jobs' = [jobs EXCEPT ![t].ref = self_tasks, ![t].pc = "append"]
    /\ UNCHANGED <<self_tasks, lists, self_results>>

\* ... and the engine appended to the list it evaluated to.
job_add_append(t) ==
    /\ jobs[t].pc = "append"
    /\ lists' = [lists EXCEPT ![jobs[t].ref] = Append(@, Head(jobs[t].to_add))]
    /\ jobs' = [jobs EXCEPT
            ![t].to_add = Tail(@),
            ![t].pc = IF Len(jobs[t].to_add) > 1 THEN "add" ELSE "run"]
    /\ UNCHANGED <<self_tasks, self_results>>

\* run(), lines 23-30: the report is initialised with len(self.tasks).
job_run_begin(t) ==
    /\ jobs[t].pc = "run"
    /\ jobs' = [jobs EXCEPT
            ![t].report = [NoReport EXCEPT !.total_tasks = Len(lists[self_tasks])],
            ![t].pc = "enumerate"]
    /\ UNCHANGED <<self_tasks, lists, self_results>>

\* Line 32: enumerate(self.tasks, 1) takes an iterator on the list object
\* the attribute refers to now.
job_enumerate(t) ==
    /\ jobs[t].pc = "enumerate"
    /\ jobs' = [jobs EXCEPT ![t].iter = self_tasks, ![t].i = 0, ![t].pc = "loop"]
    /\ UNCHANGED <<self_tasks, lists, self_results>>

\* Lines 33-52: the iterator yields the next engine of its list, as long as
\* the list holds one more; execute returns or raises, the record is
\* appended and close() returns.
job_pass(t, raised) ==
    /\ jobs[t].pc = "loop"
    /\ jobs[t].i < Len(lists[jobs[t].iter])
    /\ jobs' = [jobs EXCEPT
            ![t].i = @ + 1,
            ![t].report = [@ EXCEPT
                !.tasks = Append(@, [task |-> lists[jobs[t].iter][jobs[t].i + 1],
                                     status |-> IF raised THEN "failed"
                                                ELSE "success"]),
                !.successful = IF raised THEN @ ELSE @ + 1,
                !.failed = IF raised THEN @ + 1 ELSE @]]
    /\ UNCHANGED <<self_tasks, lists, self_results>>

\* Lines 54-60: the iterator is exhausted; the report is stored and returned.
job_return(t) ==
    /\ jobs[t].pc = "loop"
    /\ jobs[t].i >= Len(lists[jobs[t].iter])
    /\ jobs' = [jobs EXCEPT ![t].report = [@ EXCEPT !.completed = TRUE],
                            ![t].pc = "returned"]
    /\ self_results' = [jobs[t].report EXCEPT !.completed = TRUE]
    /\ UNCHANGED <<self_tasks, lists>>

(***************************************************************************)
(* Specifications                                                          *)
(***************************************************************************)
Init ==
    /\ OrchInit /\ StoreInit /\ DiscInit /\ CmpInit /\ AlertInit /\ CallInit
    /\ SchedInit /\ PassInit /\ LinkInit /\ RunsInit

\* The orchestrator over engines whose execute and close may return or raise.
OrchOnly == UNCHANGED <<store_vars, disc_vars, cmp_vars, alert_vars, aux_vars>>

OrchNext ==
    \/ \E t \in TaskClasses : add_task(t) /\ OrchOnly
    \/ run /\ OrchOnly
    \/ \E r \in ResultValues : run_execute_returns(r) /\ OrchOnly
    \/ \E e \in ErrorMessages : run_execute_raises(e) /\ OrchOnly
    \/ run_close_returns /\ OrchOnly
    \/ run_close_raises /\ OrchOnly
    \/ run_return /\ OrchOnly
    \/ run_analytics_pipeline /\ OrchOnly
    \/ run_discount_analysis /\ OrchOnly
    \/ run_price_comparison /\ OrchOnly
    \/ run_price_alerts /\ OrchOnly

SpecOrch == Init /\ [][OrchNext]_vars

\* No task is inside its loop: the store changes between runs, not during one.
TasksIdle == disc_pc = "idle" /\ cmp_pc = "idle" /\ alert_pc = "idle"

\* The source-links of product 1.
LinksOfFirst == {ps \in LinkIds : ProductOf(ps) = 1}

\* The clock steps of the discount model: within a day, and the lengths of
\* the shortest and the longest window (an observation made exactly 30 days
\* ago is still inside the 30-day window, one tick later it is not).
DiscTicks == {1, Days(30), Days(90)}

StoreOnly ==
    TasksIdle /\ UNCHANGED <<orch_vars, disc_vars, cmp_vars, alert_vars, aux_vars>>
DiscOnly == UNCHANGED <<orch_vars, store_vars, cmp_vars, alert_vars, aux_vars>>

DiscNext ==
    \/ \E d \in DiscTicks : Tick(d) /\ StoreOnly
    \/ \E ps \in LinksOfFirst, p \in PriceValues, m \in Markdowns :
          /\ Cardinality(prices) < MaxDiscPrices
          /\ insert_price(ps, p, m[1], m[2])
          /\ StoreOnly
    \/ disc_execute /\ DiscOnly
    \/ disc_analyze /\ DiscOnly
    \/ disc_return /\ DiscOnly

SpecDisc == Init /\ [][DiscNext]_vars

\* The clock steps of the alert model: within a day, and the look-back of the
\* percentage-drop condition.
AlertTicks == {1, Days(7)}

AlertOnly == UNCHANGED <<orch_vars, store_vars, disc_vars, cmp_vars, aux_vars>>

\* One alert is created, before the first observation arrives, and a run
\* starts only for alerts that have fired fewer than MaxTriggers times.
AlertNext ==
    \/ \E d \in AlertTicks : Tick(d) /\ StoreOnly
    \/ \E ps \in LinksOfFirst, p \in AlertPrices :
          insert_price(ps, p, None, None) /\ StoreOnly
    \/ \E b \in BOOLEAN : set_active(1, b) /\ StoreOnly
    \/ \E t \in TargetPrices, d \in DropPercentages :
          /\ TasksIdle
          /\ prices = {}
          /\ price_alerts = <<>>
          /\ create_alert(1, t, d)
          /\ AlertOnly
    \/ \E id \in DOMAIN price_alerts, b \in BOOLEAN :
          /\ TasksIdle
          /\ set_alert_active_status(id, b)
          /\ AlertOnly
    \/ /\ \A id \in DOMAIN price_alerts :
             price_alerts[id].trigger_count < MaxTriggers
       /\ alert_execute
       /\ AlertOnly
    \/ alert_check /\ AlertOnly
    \/ alert_return /\ AlertOnly

SpecAlert == Init /\ [][AlertNext]_vars

\* The clock steps of the comparison model: within a day, and to the next day.
CmpTicks == {1, Days(1)}

CmpOnly == UNCHANGED <<orch_vars, store_vars, disc_vars, alert_vars, aux_vars>>

CmpNext ==
    \/ \E d \in CmpTicks : Tick(d) /\ StoreOnly
    \/ \E ps \in LinksOfFirst, p \in PriceValues :
          insert_price(ps, p, None, None) /\ StoreOnly
    \/ \E ps \in LinksOfFirst, b \in BOOLEAN : set_active(ps, b) /\ StoreOnly
    \/ cmp_execute /\ CmpOnly
    \/ cmp_compare /\ CmpOnly
    \/ cmp_return /\ CmpOnly

SpecCmp == Init /\ [][CmpNext]_vars

\* The three tasks, run one at a time over observations made at one instant
\* and alerts with a target price, with entities whose processing raises.
FaultsNext ==
    \/ \E ps \in LinkIds : insert_price(ps, 1, None, None) /\ StoreOnly
    \/ /\ TasksIdle
       /\ prices = {}
       /\ create_alert(1, 1, None)
       /\ AlertOnly
    \/ TasksIdle /\ disc_execute /\ DiscOnly
    \/ disc_analyze /\ DiscOnly
    \/ \E step \in FaultSteps :
          /\ Cardinality(disc_faulty) < MaxFaults
          /\ disc_analyze_raises(step)
          /\ DiscOnly
    \/ disc_analyze_inactive /\ DiscOnly
    \/ disc_return /\ DiscOnly
    \/ TasksIdle /\ cmp_execute /\ CmpOnly
    \/ cmp_compare /\ CmpOnly
    \/ \E step \in FaultSteps :
          /\ Cardinality(cmp_faulty) < MaxFaults
          /\ cmp_compare_raises(step)
          /\ CmpOnly
    \/ cmp_compare_inactive /\ CmpOnly
    \/ cmp_return /\ CmpOnly
    \/ /\ TasksIdle
       /\ \A id \in DOMAIN price_alerts :
             price_alerts[id].trigger_count < MaxTriggers
       /\ alert_execute
       /\ AlertOnly
    \/ alert_check /\ AlertOnly
    \/ \E step \in FaultSteps :
          /\ Cardinality(alert_faulty) < MaxFaults
          /\ alert_check_raises(step)
          /\ AlertOnly
    \/ alert_check_inactive /\ AlertOnly
    \/ alert_return /\ AlertOnly

SpecFaults == Init /\ [][FaultsNext]_vars

\* The averages _determine_trend is called with, in hundredths: absent, zero,
\* and values 5 % and 10 % apart.
TrendAverages == {None, 0, 285, 300, 315, 330}

CallsOnly ==
    UNCHANGED <<orch_vars, store_vars, disc_vars, cmp_vars, alert_vars, sched_vars,
                disc_pass, link_vars, runs>>

\* One call of _determine_trend on three window metrics.
determine_trend_call ==
    \E avg_30, avg_60, avg_90 \in TrendAverages :
       \E label \in _determine_trend([avg_price |-> avg_30],
                                     [avg_price |-> avg_60],
                                     [avg_price |-> avg_90]) :
          trend_call' = [avg_30 |-> avg_30, avg_60 |-> avg_60,
                         avg_90 |-> avg_90, trend |-> label]

\* The prices of the series get_price_trend is called on, in hundredths:
\* steps of one half and of one per cent around 10.00, and a free item.
AnalyticsPrices == {0, 990, 995, 1000, 1005}

\* The series of the window: up to MaxSeries observations in time order.
PriceSeries == UNION {[1 .. n -> AnalyticsPrices] : n \in 0 .. MaxSeries}

\* One call of get_price_trend on the series of a window.
get_price_trend_call ==
    \E price_values \in PriceSeries :
       \E result \in get_price_trend(price_values) :
          analytics_call' = [price_values |-> price_values, result |-> result]

AnalyticsNext == get_price_trend_call /\ CallsOnly /\ UNCHANGED trend_call

SpecAnalytics == Init /\ [][AnalyticsNext]_vars

TrendNext == determine_trend_call /\ CallsOnly /\ UNCHANGED analytics_call

SpecTrend == Init /\ [][TrendNext]_vars

\* The jobs of the scheduler, each on its own thread, in any interleaving.
SchedOnly ==
    UNCHANGED <<orch_vars, store_vars, disc_vars, cmp_vars, alert_vars, call_vars,
                disc_pass, link_vars, runs>>

SchedNext ==
    \/ \E t \in Threads, method \in JobMethods : job_start(t, method) /\ SchedOnly
    \/ \E t \in Threads : job_reset(t) /\ SchedOnly
    \/ \E t \in Threads : job_add_load(t) /\ SchedOnly
    \/ \E t \in Threads : job_add_append(t) /\ SchedOnly
    \/ \E t \in Threads : job_run_begin(t) /\ SchedOnly
    \/ \E t \in Threads : job_enumerate(t) /\ SchedOnly
    \/ \E t \in Threads, raised \in BOOLEAN : job_pass(t, raised) /\ SchedOnly
    \/ \E t \in Threads : job_return(t) /\ SchedOnly

SpecSched == Init /\ [][SchedNext]_vars

\* Two runs of a snapshot engine in any interleaving of their lookups and
\* commits, over observations scraped before the runs.
RunsOnly ==
    UNCHANGED <<orch_vars, store_vars, alert_vars, call_vars, sched_vars, disc_pass,
                link_vars, disc_pc, disc_today, disc_queue, disc_results,
                disc_session, disc_faulty, cmp_pc, cmp_today, cmp_queue,
                cmp_results, cmp_session, cmp_faulty>>

RunsNext ==
    \/ \E ps \in LinksOfFirst, p \in PriceValues, m \in Markdowns :
          /\ Cardinality(prices) < MaxRacePrices
          /\ \A r \in RunIds : runs[r].pc \in {"idle", "returned"}
          /\ insert_price(ps, p, m[1], m[2])
          /\ UNCHANGED <<orch_vars, disc_vars, cmp_vars, alert_vars, aux_vars>>
    \/ \E r \in RunIds, engine \in SnapshotEngines : race_execute(r, engine) /\ RunsOnly
    \/ \E r \in RunIds : race_lookup(r) /\ RunsOnly
    \/ \E r \in RunIds : race_commit(r) /\ RunsOnly
    \/ \E r \in RunIds : race_inactive(r) /\ RunsOnly
    \/ \E r \in RunIds : race_return(r) /\ RunsOnly

SpecRuns == Init /\ [][RunsNext]_vars

\* Calls of get_or_create_product_source, one after the other, while links
\* are deactivated.
LinksOnly ==
    UNCHANGED <<orch_vars, store_vars, disc_vars, cmp_vars, alert_vars, call_vars,
                sched_vars, disc_pass, runs>>

LinksNext ==
    \/ \E product_id \in ProductIds, source_id \in SourceIds,
          source_product_id \in SourceProductIds,
          source_product_url \in LinkUrls, source_product_name \in LinkNames :
          /\ get_or_create_product_source(product_id, source_id, source_product_id,
                                          source_product_url, source_product_name)
          /\ LinksOnly
    \/ \E k \in 1 .. MaxLinkRows : link_deactivate(k) /\ LinksOnly

SpecLinks == Init /\ [][LinksNext]_vars

\* The discount engine query by query, while the clock runs and scrapers
\* append observations at any moment, also between two queries of a pass.
PassOnly ==
    UNCHANGED <<orch_vars, store_vars, cmp_vars, alert_vars, call_vars, sched_vars,
                link_vars, runs>>

ScraperOnly ==
    UNCHANGED <<orch_vars, disc_vars, cmp_vars, alert_vars, aux_vars>>

\* A run of the engine lasts less than a day: while it is under way the
\* clock moves by single ticks only.
PassNext ==
    \/ \E d \in DiscTicks : (disc_pc = "idle" \/ d = 1) /\ Tick(d) /\ ScraperOnly
    \/ \E ps \in LinksOfFirst, p \in PriceValues, m \in Markdowns :
          /\ Cardinality(prices) < MaxDiscPrices
          /\ insert_price(ps, p, m[1], m[2])
          /\ ScraperOnly
    \/ disc_execute /\ DiscOnly
    \/ disc_query_latest /\ PassOnly
    \/ \E days \in WindowDays : disc_query_metrics(days) /\ PassOnly
    \/ disc_store /\ PassOnly
    \/ disc_return /\ DiscOnly

SpecPass == Init /\ [][PassNext]_vars

(***************************************************************************)
(* Properties of the orchestrator (under SpecOrch)                         *)
(***************************************************************************)
\* The indexes of the engines whose execute raised in this run.
RaisedAt == {j \in 1 .. Len(outcomes) : outcomes[j].raised}

\* C1: run() never raises to its caller, whatever an engine does while it
\* runs (execute raising, close raising): no run ends in the state in which
\* an exception has left run().
C1_RunNeverRaises == run_pc # "raised"

\* C2: when run() has returned over n engines of which k raised in execute,
\* the report has total_tasks = n, failed = k, successful = n - k and n
\* entries in its detail list.
C2_ReportCounts ==
    run_pc = "completed" =>
        LET n == Len(tasks)
            k == Cardinality(RaisedAt)
        IN  /\ Len(outcomes) = n
            /\ results.total_tasks = n
            /\ results.failed = k
            /\ results.successful = n - k
            /\ Len(results.tasks) = n
            /\ results.successful + results.failed = results.total_tasks

\* Three engines, the second raised: the report says 3 / 2 / 1.
C2_Witness ==
    /\ run_pc = "completed"
    /\ Len(tasks) = 3
    /\ RaisedAt = {2}
    /\ results.total_tasks = 3 /\ results.successful = 2 /\ results.failed = 1

\* C3: the detail list of a returned report holds one record per engine, in
\* list order; record i is {task, failed, error: the message} exactly when
\* engine i's execute raised, and {task, success, result} otherwise; every
\* engine of the list was executed, whatever the engines before it did.
C3_RecordsMatchEngines ==
    run_pc = "completed" =>
        /\ Len(outcomes) = Len(tasks)
        /\ Len(results.tasks) = Len(tasks)
        /\ \A i \in 1 .. Len(tasks) :
              results.tasks[i] =
                  IF outcomes[i].raised
                  THEN [task |-> tasks[i], status |-> "failed",
                        error |-> outcomes[i].value]
                  ELSE [task |-> tasks[i], status |-> "success",
                        result |-> outcomes[i].value]

\* A failed engine followed by a different engine that ran and succeeded.
C3_Witness ==
    /\ run_pc = "completed"
    /\ \E i \in 1 .. Len(tasks) - 1 :
          /\ outcomes[i].raised /\ ~outcomes[i + 1].raised
          /\ tasks[i] # tasks[i + 1]
          /\ results.tasks[i].status = "failed"
          /\ results.tasks[i + 1].status = "success"

\* C4: a run that left idle reaches completed; there is no state in which the
\* run has stopped while engines of the list are still unexecuted.
C4_NoAbortState == ~(run_pc = "raised" /\ run_i < Len(tasks))


(***************************************************************************)
(* Properties of DiscountAnalysisTask (under SpecDisc)                     *)
(***************************************************************************)
\* The rows of a snapshot table stored for source-link ps and day d.
SnapshotsOf(table, ps, d) ==
    {k \in DOMAIN table : /\ table[k].product_source_id = ps
                          /\ table[k].analysis_date = d}

\* The loop pass that processes (commits) the head of the queue.
DiscProcesses(ps) ==
    /\ disc_pc = "loop"
    /\ disc_queue # <<>>
    /\ Head(disc_queue) = ps
    /\ disc_queue' = Tail(disc_queue)
    /\ get_latest_price(ps) # {}

\* C5: after a run has processed a source-link, the table holds exactly one
\* snapshot for that link and that day, however many runs the day has seen,
\* and every column of it is the value this run computed from its inputs;
\* no other row is touched and no key is ever stored twice.
C5_OneSnapshotPerLinkAndDay ==
    [][ /\ \A k1, k2 \in DOMAIN discount_analysis' :
              (/\ discount_analysis'[k1].product_source_id =
                      discount_analysis'[k2].product_source_id
               /\ discount_analysis'[k1].analysis_date =
                      discount_analysis'[k2].analysis_date) => k1 = k2
        /\ \A ps \in LinkIds :
              DiscProcesses(ps) =>
                 LET latest_price == CHOOSE o \in get_latest_price(ps) : TRUE
                     rows == SnapshotsOf(discount_analysis', ps, disc_today)
                 IN  /\ Cardinality(rows) = 1
                     /\ \A k \in rows :
                           \E trend \in TrendsOf(ps) :
                              discount_analysis'[k] =
                                  DiscountFields(ps, latest_price, trend) @@
                                  [product_source_id |-> ps,
                                   analysis_date |-> disc_today]
                     /\ \A k \in DOMAIN discount_analysis \ rows :
                           discount_analysis'[k] = discount_analysis[k]
                     /\ Len(discount_analysis') <= Len(discount_analysis) + 1
      ]_vars

\* Two runs on day 30.  The first found an observation of link 2 only, made
\* exactly 30 days earlier; one tick later that observation has left the
\* 30-day window and link 1 has an observation: the second run rewrote the
\* row of link 2 in place (its 30-day columns are now empty) and added the
\* row of link 1 after it.
C5_Witness ==
    /\ disc_pc = "loop"
    /\ disc_queue = <<>>
    /\ Len(discount_analysis) = 2
    /\ discount_analysis[1].product_source_id = 2
    /\ discount_analysis[2].product_source_id = 1
    /\ discount_analysis[1].analysis_date = 30
    /\ discount_analysis[2].analysis_date = 30
    /\ discount_analysis[1].min_price_30d = None
    /\ discount_analysis[1].price_trend = "unknown"
    /\ discount_analysis[1].min_price_60d # None
    /\ disc_results.analyzed = 2

\* C6 as stated: for every snapshot whose 90-day minimum is present, a
\* current price above the minimum means flagged with a non-empty reason,
\* and a current price at or below the minimum means not flagged.
C6_FakeIffAboveMinimum ==
    \A k \in DOMAIN discount_analysis :
        LET row == discount_analysis[k] IN
        row.min_price_90d # None =>
            /\ row.current_price > row.min_price_90d =>
                  (row.is_fake_discount /\ row.fake_discount_reason # NoReason)
            /\ row.current_price <= row.min_price_90d => ~row.is_fake_discount

\* C6 amended: for a snapshot whose 90-day minimum is present and whose
\* latest observation carries a non-zero original price, a current price
\* above the minimum means flagged with a non-empty reason; a current price
\* at or below the minimum is never flagged, and neither is an observation
\* without a (non-zero) original price.
C6_FakeIffAboveMinimumAndListed ==
    [][ \A ps \in LinkIds :
          DiscProcesses(ps) =>
             LET latest_price == CHOOSE o \in get_latest_price(ps) : TRUE
                 rows == SnapshotsOf(discount_analysis', ps, disc_today)
             IN  \A k \in rows :
                   LET row == discount_analysis'[k] IN
                   /\ row.current_price = latest_price.price
                   /\ row.min_price_90d # None =>
                        /\ (/\ Truthy(latest_price.original_price)
                            /\ row.current_price > row.min_price_90d)
                              => /\ row.is_fake_discount
                                 /\ row.fake_discount_reason # NoReason
                        /\ row.current_price <= row.min_price_90d
                              => ~row.is_fake_discount
                        /\ ~Truthy(latest_price.original_price)
                              => (/\ ~row.is_fake_discount
                                  /\ row.fake_discount_reason = NoReason)
      ]_vars

\* Every observation carries an original price; one snapshot has its price
\* at the 90-day minimum and is not flagged, a later one has its price above
\* the minimum and is flagged with its reason.
C6_Witness ==
    /\ prices # {}
    /\ \A o \in prices : Truthy(o.original_price)
    /\ \E k1, k2 \in DOMAIN discount_analysis :
          /\ discount_analysis[k1].min_price_90d = 1
          /\ discount_analysis[k1].current_price = 1
          /\ ~discount_analysis[k1].is_fake_discount
          /\ discount_analysis[k1].fake_discount_reason = NoReason
          /\ discount_analysis[k2].min_price_90d = 1
          /\ discount_analysis[k2].current_price = 2
          /\ discount_analysis[k2].is_fake_discount
          /\ discount_analysis[k2].fake_discount_reason = <<2, 1>>

(***************************************************************************)
(* Properties of PriceAlertTask (under SpecAlert)                          *)
(***************************************************************************)
\* The loop pass that evaluates alert id.
AlertChecks(id) ==
    /\ alert_pc = "loop"
    /\ alert_queue # <<>>
    /\ Head(alert_queue) = id
    /\ alert_queue' = Tail(alert_queue)

\* That pass triggers the alert.
Fires == alert_results'.triggered = alert_results.triggered + 1

\* Some active source-link of the product has a latest observation priced at
\* or below the target.
SomeLatestAtOrBelow(product_id, target_price) ==
    \E ps \in LinkIds :
        /\ product_sources[ps].product_id = product_id
        /\ product_sources[ps].is_active
        /\ \E new \in get_latest_price(ps) : new.price <= target_price

\* The most recent observation of ps made at or before now - 7 days.
WeekOld(ps) ==
    {o \in prices :
        /\ o.product_source_id = ps
        /\ o.scraped_at <= now - Days(7)
        /\ \A q \in prices :
              (q.product_source_id = ps /\ q.scraped_at <= now - Days(7))
                  => q.scraped_at <= o.scraped_at}

\* Some active source-link of the product has dropped by at least the
\* threshold against its own most recent week-old observation.
SomeLinkDropped(product_id, threshold) ==
    \E ps \in LinkIds :
        /\ product_sources[ps].product_id = product_id
        /\ product_sources[ps].is_active
        /\ \E new \in get_latest_price(ps), old \in WeekOld(ps) :
              (old.price - new.price) * 100 >= threshold * old.price

\* C7 as stated: an active alert with a target price triggers in a run if and
\* only if some active source-link of its product has a latest price at or
\* below the target.
C7_TargetIff ==
    [][ \A id \in DOMAIN price_alerts :
          (AlertChecks(id) /\ price_alerts[id].target_price # None) =>
             (Fires <=> SomeLatestAtOrBelow(price_alerts[id].product_id,
                                            price_alerts[id].target_price))
      ]_vars

\* C7 amended: for an active alert with a target price, a latest price of an
\* active source-link at or below the target (equal included) always triggers
\* the alert; the alert triggers only then when it has no percentage-drop
\* threshold (with one, the drop condition may trigger it as well).
C7_TargetSufficient ==
    [][ \A id \in DOMAIN price_alerts :
          (AlertChecks(id) /\ price_alerts[id].target_price # None) =>
             LET alert == price_alerts[id]
                 reached == SomeLatestAtOrBelow(alert.product_id, alert.target_price)
             IN  /\ reached => Fires
                 /\ (alert.price_drop_percentage = None /\ Fires) => reached
      ]_vars

\* A run has just triggered an alert that has only a target price: an active
\* source-link's latest price equals the target and none lies below it.
C7_Witness ==
    /\ alert_pc = "loop"
    /\ alert_queue = <<>>
    /\ alert_results.triggered = 1
    /\ Len(price_alerts) = 1
    /\ price_alerts[1].target_price = 1
    /\ price_alerts[1].price_drop_percentage = None
    /\ price_alerts[1].trigger_count = 1
    /\ \E ps \in ActiveLinksOf(1) : \E o \in get_latest_price(ps) : o.price = 1
    /\ \E ps \in ActiveLinksOf(1) : \E o \in get_latest_price(ps) : o.price > 1
    /\ \A o \in prices : o.price >= 1

\* C8: an active alert with a percentage-drop threshold whose target-price
\* condition did not hold triggers in a run if and only if some source-link
\* of its product has a latest observation and an own most recent
\* observation at least 7 days old with (old - new) / old * 100 >= threshold.
C8_DropIff ==
    [][ \A id \in DOMAIN price_alerts :
          LET alert == price_alerts[id] IN
          (/\ AlertChecks(id)
           /\ alert.price_drop_percentage # None
           /\ ~(/\ alert.target_price # None
                /\ SomeLatestAtOrBelow(alert.product_id, alert.target_price)))
            => (Fires <=> SomeLinkDropped(alert.product_id,
                                          alert.price_drop_percentage))
      ]_vars

\* C9: a pass that triggers an alert adds exactly 1 to its trigger_count,
\* sets last_triggered_at to the time of the run and leaves is_active true
\* and every other column alone; a pass that does not trigger leaves the row
\* alone; and an alert whose target condition holds triggers however often
\* and however recently it has triggered before.
C9_TriggerBookkeeping ==
    [][ \A id \in DOMAIN price_alerts :
          AlertChecks(id) =>
             LET alert == price_alerts[id]
                 after == price_alerts'[id]
             IN  /\ Fires =>
                       /\ after.trigger_count = alert.trigger_count + 1
                       /\ after.last_triggered_at = now
                       /\ after.is_active
                       /\ after = [alert EXCEPT !.trigger_count = after.trigger_count,
                                                !.last_triggered_at = after.last_triggered_at]
                 /\ ~Fires => after = alert
                 /\ (/\ alert.target_price # None
                     /\ SomeLatestAtOrBelow(alert.product_id, alert.target_price))
                       => Fires
                 /\ \A other \in DOMAIN price_alerts \ {id} :
                       price_alerts'[other] = price_alerts[other]
      ]_vars

\* Two consecutive runs at one instant have triggered the alert twice: it
\* has both thresholds, both source-links are at the target, and link 1 has
\* also halved against its week-old price.
C9_Witness ==
    /\ alert_pc = "loop"
    /\ alert_queue = <<>>
    /\ Len(price_alerts) = 1
    /\ price_alerts[1].target_price = 1
    /\ price_alerts[1].price_drop_percentage = 50
    /\ price_alerts[1].trigger_count = 2
    /\ price_alerts[1].last_triggered_at = now
    /\ price_alerts[1].is_active
    /\ alert_results.triggered = 1
    /\ \A ps \in LinksOfFirst :
          /\ product_sources[ps].is_active
          /\ \E o \in get_latest_price(ps) : o.price = 1
    /\ SomeLinkDropped(1, 50)

(***************************************************************************)
(* Properties of PriceComparisonTask (under SpecCmp)                       *)
(***************************************************************************)
\* The comparison snapshots of a product, with their places in the table.
ComparisonsOf(table, product_id) ==
    {<<k, table[k]>> : k \in {j \in DOMAIN table : table[j].product_id = product_id}}

\* C10: no step creates or updates a comparison snapshot of a product that
\* has fewer than 2 active source-links, whatever observations its
\* source-links have.
C10_NoSnapshotBelowTwoLinks ==
    [][ \A p \in ProductIds :
          Cardinality(ActiveLinksOf(p)) < 2 =>
             ComparisonsOf(price_comparisons', p) = ComparisonsOf(price_comparisons, p)
      ]_vars

\* A run has gone through its loop on a day when product 1 had one active
\* source-link left: both its source-links have an observation and the only
\* snapshot is the one it got on an earlier day.
C10_Witness ==
    /\ cmp_pc = "loop"
    /\ cmp_queue = <<>>
    /\ cmp_results.compared = 0
    /\ cmp_today = DateOf(now)
    /\ Cardinality(ActiveLinksOf(1)) = 1
    /\ \A ps \in LinksOfFirst : get_latest_price(ps) # {}
    /\ Len(price_comparisons) = 1
    /\ price_comparisons[1].product_id = 1
    /\ price_comparisons[1].comparison_date < cmp_today
    /\ price_comparisons[1].source_count = 2

\* The loop pass that compares product p.
CmpCompares(p) ==
    /\ cmp_pc = "loop"
    /\ cmp_queue # <<>>
    /\ Head(cmp_queue) = p
    /\ cmp_queue' = Tail(cmp_queue)

\* The active source-links of p that have at least one observation.
PricedActiveLinks(p) ==
    {ps \in LinkIds : /\ product_sources[ps].product_id = p
                      /\ product_sources[ps].is_active
                      /\ \E o \in prices : o.product_source_id = ps}

\* The price of the most recent observation of ps.
LatestPriceOf(ps) ==
    LET mine == {o \in prices : o.product_source_id = ps}
    IN  (CHOOSE o \in mine : \A q \in mine : q.scraped_at <= o.scraped_at).price

\* The rows of a comparison table stored for product p and day d.
ComparisonRows(table, p, d) ==
    {k \in DOMAIN table : table[k].product_id = p /\ table[k].comparison_date = d}

\* C11: the snapshot a pass writes for a product has best_price = min_price =
\* the lowest latest price of the product's active source-links that have an
\* observation, max_price their highest, best_price_product_source_id an
\* active source-link of the product whose latest price is best_price, and
\* source_count the number of those source-links (at least 1); a product
\* none of whose active source-links has an observation gets nothing written.
C11_SnapshotFields ==
    [][ \A p \in ProductIds :
          CmpCompares(p) =>
             LET links == PricedActiveLinks(p)
                 latest == {LatestPriceOf(ps) : ps \in links}
                 rows == ComparisonRows(price_comparisons', p, cmp_today)
             IN  IF links = {}
                 THEN price_comparisons' = price_comparisons
                 ELSE /\ Cardinality(rows) = 1
                      /\ \A k \in rows :
                           LET row == price_comparisons'[k] IN
                           /\ row.best_price = SetMin(latest)
                           /\ row.min_price = row.best_price
                           /\ row.max_price = SetMax(latest)
                           /\ row.min_price <= row.max_price
                           /\ row.best_price_product_source_id \in links
                           /\ LatestPriceOf(row.best_price_product_source_id)
                                 = row.best_price
                           /\ row.best_price_source_id =
                                 product_sources[row.best_price_product_source_id].source_id
                           /\ row.source_count = Cardinality(links)
                           /\ row.source_count >= 1
      ]_vars

\* Product 1 was compared on day 0, when only link 2 of its two active
\* source-links had an observation (source_count 1), and again on a later
\* day, after link 1 was observed at a lower price: that snapshot has
\* min 1 < max 2, names link 1 as the best one and counts 2 sources.
C11_Witness ==
    /\ cmp_pc = "loop"
    /\ cmp_queue = <<>>
    /\ ActiveLinksOf(1) = {1, 2}
    /\ Len(price_comparisons) = 2
    /\ price_comparisons[1].comparison_date = 0
    /\ price_comparisons[1].source_count = 1
    /\ price_comparisons[1].best_price_product_source_id = 2
    /\ price_comparisons[1].min_price = price_comparisons[1].max_price
    /\ price_comparisons[2].comparison_date = cmp_today
    /\ price_comparisons[2].source_count = 2
    /\ price_comparisons[2].best_price = 1
    /\ price_comparisons[2].min_price = 1
    /\ price_comparisons[2].max_price = 2
    /\ price_comparisons[2].best_price_product_source_id = 1
    /\ \A o \in prices : o.product_source_id = 1 => o.scraped_at > 1

(***************************************************************************)
(* Properties of the metric helpers (under SpecDisc)                       *)
(***************************************************************************)
\* C12: for every source-link and window, calculate_price_metrics returns
\* the least and the greatest price and the arithmetic mean of exactly the
\* observations of that source-link that are at most `days` days old, and
\* three nulls (not zeros) when there is none.
C12_MetricsOverWindow ==
    \A ps \in LinkIds, days \in WindowDays :
        LET inside == {o \in prices : /\ o.product_source_id = ps
                                      /\ now - o.scraped_at <= days * TicksPerDay}
            m == calculate_price_metrics(ps, days)
        IN  IF inside = {}
            THEN /\ m.min_price = None /\ m.max_price = None /\ m.avg_price = None
                 /\ m.min_price # 0 /\ m.max_price # 0 /\ m.avg_price # 0
            ELSE /\ \E o \in inside : o.price = m.min_price
                 /\ \A o \in inside : m.min_price <= o.price
                 /\ \E o \in inside : o.price = m.max_price
                 /\ \A o \in inside : o.price <= m.max_price
                 /\ m.avg_price * Cardinality(inside) =
                       AvgScale * SumOf([o \in inside |-> o.price], inside)

\* Link 1 has an observation of price 1 made 30 days and a tick ago and one
\* of price 2 made now, link 2 has none: the 30-day metrics of link 1 cover
\* the new observation only, its 60-day metrics both (mean 1.5), the metrics
\* of link 2 are null, and a snapshot computed from them is stored.
C12_Witness ==
    /\ calculate_price_metrics(1, 30) =
          [min_price |-> 2, max_price |-> 2, avg_price |-> 2 * AvgScale]
    /\ calculate_price_metrics(1, 60).min_price = 1
    /\ calculate_price_metrics(1, 60).max_price = 2
    /\ 2 * calculate_price_metrics(1, 60).avg_price = 3 * AvgScale
    /\ calculate_price_metrics(2, 90).avg_price = None
    /\ \E k \in DOMAIN discount_analysis :
          /\ discount_analysis[k].product_source_id = 1
          /\ discount_analysis[k].analysis_date = DateOf(now)
          /\ discount_analysis[k].min_price_30d = 2
          /\ discount_analysis[k].min_price_60d = 1
          /\ discount_analysis[k].avg_price_60d = 150

(***************************************************************************)
(* Failure isolation in the task loops                                     *)
(***************************************************************************)
\* The source-links a discount run has something to analyse for.
DiscEligible ==
    {ps \in LinkIds : product_sources[ps].is_active /\ get_latest_price(ps) # {}}

\* C13: when a discount run has gone through its loop, the error list holds
\* exactly one entry for each source-link whose own processing raised and
\* none for any other, and every other eligible source-link has been
\* analysed in that run: it is counted and its snapshot of the day is stored.
C13_FaultIsolated ==
    (disc_pc = "loop" /\ disc_queue = <<>>) =>
        /\ Len(disc_results.errors) = Cardinality(disc_faulty)
        /\ \A ps \in disc_faulty :
              \E j \in DOMAIN disc_results.errors : disc_results.errors[j] = ps
        /\ disc_results.analyzed = Cardinality(DiscEligible \ disc_faulty)
        /\ \A ps \in DiscEligible \ disc_faulty :
              SnapshotsOf(discount_analysis, ps, disc_today) # {}

(***************************************************************************)
(* The trend label of the discount analysis                                *)
(***************************************************************************)
\* The label the rules give, with exact arithmetic on the averages.
TrendRule(avg_30, avg_60, avg_90) ==
    IF avg_30 \in {None, 0} \/ avg_60 \in {None, 0} \/ avg_90 \in {None, 0}
    THEN "unknown"
    ELSE IF avg_30 * 100 > avg_60 * 105 THEN "increasing"
    ELSE IF avg_30 * 100 < avg_60 * 95 THEN "decreasing"
    ELSE IF (IF avg_30 >= avg_60 THEN avg_30 - avg_60 ELSE avg_60 - avg_30) * 100
                < avg_60 * 5 THEN "stable"
    ELSE "volatile"

\* C14: every call of _determine_trend returns the label of the rules:
\* 'unknown' if an average is absent, else 'increasing' above 1.05 * avg_60,
\* else 'decreasing' below 0.95 * avg_60, else 'stable' if the relative
\* difference is below 0.05, else 'volatile'; avg_90 only has to be present.
C14_TrendRules ==
    trend_call # NoCall =>
        trend_call.trend =
            TrendRule(trend_call.avg_30, trend_call.avg_60, trend_call.avg_90)

\* C26: with the three averages present, _determine_trend returns 'volatile'
\* exactly when avg_30 = 1.05 * avg_60 or avg_30 = 0.95 * avg_60, and one of
\* 'increasing', 'decreasing', 'stable' for every other input.
C26_VolatileOnlyOnBoundary ==
    (/\ trend_call # NoCall
     /\ trend_call.avg_30 \notin {None, 0}
     /\ trend_call.avg_60 \notin {None, 0}
     /\ trend_call.avg_90 \notin {None, 0}) =>
        LET OnBoundary == \/ trend_call.avg_30 * 100 = trend_call.avg_60 * 105
                          \/ trend_call.avg_30 * 100 = trend_call.avg_60 * 95
        IN  /\ (trend_call.trend = "volatile") <=> OnBoundary
            /\ ~OnBoundary =>
                   trend_call.trend \in {"increasing", "decreasing", "stable"}

(***************************************************************************)
(* The trend label of the price analytics                                  *)
(***************************************************************************)
\* Whether 200 * S_xy / (S_xx * sum), the least-squares slope of the series
\* against its index divided by the mean and times 100, is above 1 (sign 1)
\* or below -1 (sign -1), with exact arithmetic.
SlopeBeyond(price_values, sign) ==
    LET n == Len(price_values)
        X == 1 .. n
        sum == SumOf(price_values, X)
        S_xy == SumOf([i \in X |-> (2 * (i - 1) - (n - 1)) * (n * price_values[i] - sum)], X)
        S_xx == SumOf([i \in X |-> (2 * (i - 1) - (n - 1)) * (2 * (i - 1) - (n - 1))], X)
    IN  sum # 0 /\ sign * 200 * S_xy > S_xx * sum

\* C15: a call of get_price_trend on no price returns 'unknown' with 0 data
\* points; on one price 'insufficient_data' with slope 0 and volatility 0;
\* on two or more 'increasing' if the normalized slope is above 1,
\* 'decreasing' if it is below -1 and 'stable' otherwise, and a constant
\* series is 'stable' with price change 0.
C15_TrendOfSeries ==
    analytics_call # NoCall =>
        LET price_values == analytics_call.price_values
            result == analytics_call.result
            n == Len(price_values)
        IN  /\ result.data_points = n
            /\ n = 0 => result.trend = "unknown"
            /\ n = 1 => /\ result.trend = "insufficient_data"
                        /\ result.slope = 0
                        /\ result.volatility = 0
            /\ n >= 2 =>
                  /\ result.trend =
                        IF SlopeBeyond(price_values, 1) THEN "increasing"
                        ELSE IF SlopeBeyond(price_values, -1) THEN "decreasing"
                        ELSE "stable"
                  /\ (\A i \in 1 .. n : price_values[i] = price_values[1]) =>
                        result.trend = "stable" /\ result.price_change = 0

(***************************************************************************)
(* The actual discount of a snapshot                                       *)
(***************************************************************************)
\* C16: the snapshot a run stores for a source-link whose latest observation
\* has an original price and whose 90-day minimum is present and positive
\* holds (current - minimum) / minimum * 100 (here in hundredths), zero
\* included; the column is null only when that is not the case.
C16_ActualDiscountStored ==
    [][ \A ps \in LinkIds :
          DiscProcesses(ps) =>
             LET latest_price == CHOOSE o \in get_latest_price(ps) : TRUE
                 minimum == calculate_price_metrics(ps, 90).min_price
                 computable == /\ latest_price.original_price \notin {None, 0}
                               /\ minimum # None
                               /\ minimum > 0
             IN  \A k \in SnapshotsOf(discount_analysis', ps, disc_today) :
                    discount_analysis'[k].actual_discount_percentage =
                        IF computable
                        THEN RoundDiv((latest_price.price - minimum) * 10000, minimum)
                        ELSE None
      ]_vars

(***************************************************************************)
(* One comparison snapshot per product and day                             *)
(***************************************************************************)
\* C17: the comparison table never holds two rows of one (product, date); a
\* pass for a product that already has a row of the day leaves the number
\* of rows and every other row as they were, and that row, at its place,
\* holds the best, minimum and maximum price, the variance and the source
\* count of this pass.
C17_OneComparisonPerProductAndDay ==
    [][ /\ \A k1, k2 \in DOMAIN price_comparisons' :
              (/\ price_comparisons'[k1].product_id = price_comparisons'[k2].product_id
               /\ price_comparisons'[k1].comparison_date =
                      price_comparisons'[k2].comparison_date) => k1 = k2
        /\ \A p \in ProductIds :
              (/\ CmpCompares(p)
               /\ PricedActiveLinks(p) # {}
               /\ ComparisonRows(price_comparisons, p, cmp_today) # {}) =>
                 LET latest == UNION {get_latest_price(ps) : ps \in PricedActiveLinks(p)}
                 IN  /\ Len(price_comparisons') = Len(price_comparisons)
                     /\ \A k \in DOMAIN price_comparisons :
                           IF k \in ComparisonRows(price_comparisons, p, cmp_today)
                           THEN /\ price_comparisons'[k].product_id = p
                                /\ price_comparisons'[k].comparison_date = cmp_today
                                /\ price_comparisons'[k].best_price =
                                      SetMin({o.price : o \in latest})
                                /\ price_comparisons'[k].min_price =
                                      SetMin({o.price : o \in latest})
                                /\ price_comparisons'[k].max_price =
                                      SetMax({o.price : o \in latest})
                                /\ price_comparisons'[k].price_variance = StdDev(latest)
                                /\ price_comparisons'[k].source_count = Cardinality(latest)
                           ELSE price_comparisons'[k] = price_comparisons[k]
      ]_vars

\* A run of day 1 is about to compare product 1 a second time that day: the
\* table holds the product's row of day 0 and its row of day 1, which was
\* written when one of its source-links had an observation (source_count 1,
\* no spread), and both source-links now have one, at different prices.
C17_Witness ==
    /\ cmp_pc = "loop"
    /\ cmp_queue # <<>>
    /\ Head(cmp_queue) = 1
    /\ cmp_today = 1
    /\ Len(price_comparisons) = 2
    /\ price_comparisons[1].product_id = 1
    /\ price_comparisons[1].comparison_date = 0
    /\ price_comparisons[2].product_id = 1
    /\ price_comparisons[2].comparison_date = 1
    /\ price_comparisons[2].source_count = 1
    /\ price_comparisons[2].price_variance = 0
    /\ Cardinality(PricedActiveLinks(1)) = 2
    /\ LatestPriceOf(1) # LatestPriceOf(2)

(***************************************************************************)
(* What the engines write                                                  *)
(***************************************************************************)
\* A step of one of the three engines: its execute() is entered, is in its
\* loop, or returns.
EngineStep ==
    \/ disc_pc # "idle" \/ disc_pc' # "idle"
    \/ cmp_pc # "idle" \/ cmp_pc' # "idle"
    \/ alert_pc # "idle" \/ alert_pc' # "idle"

\* The (source-link, date) keys of the discount snapshots of a table.
DiscountKeys(table) ==
    {<<table[k].product_source_id, table[k].analysis_date>> : k \in DOMAIN table}

\* The (product, date) keys of the comparison snapshots of a table.
ComparisonKeys(table) ==
    {<<table[k].product_id, table[k].comparison_date>> : k \in DOMAIN table}

\* C18: no step of an engine adds, changes or removes a price observation
\* or a source-link, and no step at all removes a snapshot: the keys of the
\* discount and of the comparison snapshots only grow.
C18_EnginesOnlyAddSnapshots ==
    [][ /\ EngineStep => prices' = prices /\ product_sources' = product_sources
        /\ DiscountKeys(discount_analysis) \subseteq DiscountKeys(discount_analysis')
        /\ ComparisonKeys(price_comparisons) \subseteq ComparisonKeys(price_comparisons')
        /\ Len(discount_analysis) <= Len(discount_analysis')
        /\ Len(price_comparisons) <= Len(price_comparisons')
      ]_vars

\* The three engines have run over two observed source-links of product 1
\* and one of product 2: three discount snapshots, a comparison snapshot
\* and a triggered alert are stored, and the last run has ended.
C18_Witness ==
    /\ TasksIdle
    /\ Cardinality(prices) = 3
    /\ Len(discount_analysis) = 3
    /\ Len(price_comparisons) >= 1
    /\ \E id \in DOMAIN price_alerts : price_alerts[id].trigger_count > 0

LinksWithoutWeekOld(product_id) ==
    {ps \in LinkIds : /\ product_sources[ps].product_id = product_id
                      /\ product_sources[ps].is_active
                      /\ get_latest_price(ps) # {}
                      /\ WeekOld(ps) = {}}

\* C20: in the pass of an alert that is evaluated on its drop percentage
\* and whose product has a source-link with no observation at or before
\* now - 7 days, no error is recorded, the alert is counted as checked, the
\* source-link contributes nothing, and the alert triggers exactly if one of
\* the other source-links has dropped by the percentage.
C20_LinkWithoutOldPriceSkipped ==
    [][ \A id \in DOMAIN price_alerts :
          LET alert == price_alerts[id] IN
          (/\ AlertChecks(id)
           /\ alert.price_drop_percentage \notin {None, 0}
           /\ ~(alert.target_price \notin {None, 0}
                 /\ SomeLatestAtOrBelow(alert.product_id, alert.target_price))
           /\ LinksWithoutWeekOld(alert.product_id) # {}) =>
              /\ alert_results'.errors = alert_results.errors
              /\ alert_results'.checked = alert_results.checked + 1
              /\ Fires <=> SomeLinkDropped(alert.product_id, alert.price_drop_percentage)
      ]_vars

\* A run has checked and triggered an alert on a 50 % drop: link 1 of its
\* product has its only observation at the time of the run, link 2 has
\* halved against its observation of a week before.
C20_Witness ==
    /\ alert_pc = "loop"
    /\ alert_queue = <<>>
    /\ alert_results = [checked |-> 1, triggered |-> 1, errors |-> <<>>]
    /\ Len(price_alerts) = 1
    /\ price_alerts[1].target_price = None
    /\ price_alerts[1].price_drop_percentage = 50
    /\ price_alerts[1].last_triggered_at = now
    /\ LinksWithoutWeekOld(1) = {1}
    /\ product_sources[2].is_active
    /\ WeekOld(2) # {}

(***************************************************************************)
(* The order of the calls of a run (under SpecOrch)                        *)
(***************************************************************************)
\* The engines execute() was called on in this run, in call order.
Executed == SelectSeq(calls, LAMBDA c : c[1] = "execute")

\* The engines close() was called on in this run, in call order.
Closed == SelectSeq(calls, LAMBDA c : c[1] = "close")

EnginesOf(method) ==
    IF method = "run_analytics_pipeline"
    THEN <<"DiscountAnalysisTask", "PriceComparisonTask", "PriceAlertTask">>
    ELSE IF method = "run_discount_analysis" THEN <<"DiscountAnalysisTask">>
    ELSE IF method = "run_price_comparison" THEN <<"PriceComparisonTask">>
    ELSE <<"PriceAlertTask">>

\* C24: a run started by a convenience entry point is over that entry
\* point's engines, whatever the instance ran before: its report counts
\* them (3 for the full pipeline, 1 for the others) and, when it is
\* returned, holds one record for each of them, in their order.
C24_EntryPointRunsOwnEngines ==
    (entry \notin {"none", "run"} /\ run_pc # "idle") =>
        /\ tasks = EnginesOf(entry)
        /\ run_results.total_tasks = Len(EnginesOf(entry))
        /\ run_pc = "completed" =>
              /\ results.total_tasks = Len(EnginesOf(entry))
              /\ Len(results.tasks) = Len(EnginesOf(entry))
              /\ \A i \in DOMAIN results.tasks :
                    results.tasks[i].task = EnginesOf(entry)[i]

\* run_discount_analysis was called on an instance whose last report is the
\* one of a full pipeline run: its only engine has been executed and
\* recorded.
C24_Witness ==
    /\ entry = "run_discount_analysis"
    /\ run_pc = "finally"
    /\ results.completed
    /\ results.total_tasks = 3
    /\ run_results.total_tasks = 1
    /\ Len(run_results.tasks) = 1
    /\ run_results.tasks[1].task = "DiscountAnalysisTask"

C27_OverlappingReportsOwnEngines ==
    \A t \in Threads :
        jobs[t].pc = "returned" =>
            LET report == jobs[t].report
                own == EngineList(jobs[t].method)
            IN  /\ report.total_tasks = Len(report.tasks)
                /\ report.total_tasks = report.successful + report.failed
                /\ Len(report.tasks) = Len(own)
                /\ \A k \in DOMAIN report.tasks : report.tasks[k].task = own[k]

(***************************************************************************)
(* The windows of a snapshot (under SpecPass)                              *)
(***************************************************************************)
\* C29: in every stored snapshot the windows are nested: a 30-day minimum
\* comes with a 60-day one and that with a 90-day one, min_90 <= min_60 <=
\* min_30, max_30 <= max_60 <= max_90, and with a 90-day window present
\* min_90 <= current_price <= max_90; also when observations are appended
\* between the queries of the pass.
C29_WindowsNested ==
    \A k \in DOMAIN discount_analysis :
        LET r == discount_analysis[k] IN
        /\ r.min_price_30d # None => r.min_price_60d # None
        /\ r.min_price_60d # None => r.min_price_90d # None
        /\ r.min_price_30d # None =>
               /\ r.min_price_60d <= r.min_price_30d
               /\ r.max_price_30d <= r.max_price_60d
        /\ r.min_price_60d # None =>
               /\ r.min_price_90d <= r.min_price_60d
               /\ r.max_price_60d <= r.max_price_90d
        /\ r.min_price_90d # None =>
               /\ r.min_price_90d <= r.current_price
               /\ r.current_price <= r.max_price_90d

(***************************************************************************)
(* Snapshots with an actual discount (under SpecPass)                      *)
(***************************************************************************)
\* C28: every stored snapshot with a non-null actual_discount_percentage has
\* is_fake_discount true; so get_best_deals, which asks for snapshots that
\* are not fake and have an actual discount of at least min_discount,
\* returns the empty list for every min_discount and limit.
C28_NoBestDeals ==
    /\ \A k \in DOMAIN discount_analysis :
          discount_analysis[k].actual_discount_percentage # None
              => discount_analysis[k].is_fake_discount = TRUE
    /\ \A limit \in DealLimits, min_discount \in DealMinDiscounts :
          get_best_deals(limit, min_discount) = {<<>>}

(***************************************************************************)
(* The claimed discount and the fake-discount decision (under SpecDisc)    *)
(***************************************************************************)
\* The values discount_percentage of an observation is varied over.
OtherDiscounts == {None, 0, ClaimedDiscount, 2 * ClaimedDiscount}

\* C23: the snapshot a pass stores holds the claimed discount of the latest
\* observation, and a pass over the same store with only that observation's
\* discount_percentage changed would store the same is_fake_discount,
\* fake_discount_reason, actual_discount_percentage and price_trend, and
\* the changed value as claimed_discount_percentage.
C23_FakeDecisionIgnoresClaimedDiscount ==
    [][ \A ps \in LinkIds :
          DiscProcesses(ps) =>
             LET latest_price == CHOOSE o \in get_latest_price(ps) : TRUE IN
             \A k \in SnapshotsOf(discount_analysis', ps, disc_today) :
                LET row == discount_analysis'[k] IN
                /\ row.claimed_discount_percentage = latest_price.discount_percentage
                /\ \A d \in OtherDiscounts :
                      LET other == DiscountFields(ps,
                                      [latest_price EXCEPT !.discount_percentage = d],
                                      row.price_trend)
                      IN  /\ row.price_trend \in TrendsOf(ps)
                          /\ other.is_fake_discount = row.is_fake_discount
                          /\ other.fake_discount_reason = row.fake_discount_reason
                          /\ other.actual_discount_percentage
                                 = row.actual_discount_percentage
                          /\ other.claimed_discount_percentage = d
      ]_vars

\* Two source-links with a listed price and the same current price,
\* analysed on one day: their snapshots differ in the claimed discount and
\* agree in the decision and the actual discount.
C23_Witness ==
    \E k1, k2 \in DOMAIN discount_analysis :
        /\ discount_analysis[k1].analysis_date = discount_analysis[k2].analysis_date
        /\ discount_analysis[k1].claimed_discount_percentage = ClaimedDiscount
        /\ discount_analysis[k2].claimed_discount_percentage = None
        /\ discount_analysis[k1].current_price = discount_analysis[k2].current_price
        /\ discount_analysis[k1].actual_discount_percentage
               = discount_analysis[k2].actual_discount_percentage
        /\ discount_analysis[k1].is_fake_discount
               = discount_analysis[k2].is_fake_discount
        /\ \E o1, o2 \in prices :
              /\ o1.product_source_id = discount_analysis[k1].product_source_id
              /\ o2.product_source_id = discount_analysis[k2].product_source_id
              /\ o1.original_price = ListedPrice
              /\ o2.original_price = ListedPrice

(***************************************************************************)
(* The source-link helper is an upsert (under SpecLinks)                   *)
(***************************************************************************)
\* C25: the table never holds two links of one (source_id,
\* source_product_id) and after a call it holds one of the call's key.  A
\* call for a key that has a link returns that link, at its place, with
\* the URL of the call, the name of the call when one is passed, is_active
\* true and the product_id it had; no other link changes and none is added.
C25_ProductSourceUpsert ==
    [][ /\ \A k1, k2 \in DOMAIN link_table' :
              (/\ link_table'[k1].source_id = link_table'[k2].source_id
               /\ link_table'[k1].source_product_id
                      = link_table'[k2].source_product_id) => k1 = k2
        /\ \A product_id \in ProductIds, source_id \in SourceIds,
              source_product_id \in SourceProductIds,
              source_product_url \in LinkUrls, source_product_name \in LinkNames :
              get_or_create_product_source(product_id, source_id, source_product_id,
                                           source_product_url, source_product_name) =>
                 LET hits == LinkHits(link_table, source_id, source_product_id)
                     after == LinkHits(link_table', source_id, source_product_id)
                     returned == link_call'.returned
                 IN  /\ after = {returned}
                     /\ link_table'[returned].source_product_url = source_product_url
                     /\ link_table'[returned].is_active = TRUE
                     /\ hits # {} =>
                           /\ hits = {returned}
                           /\ Len(link_table') = Len(link_table)
                           /\ link_table'[returned].product_id
                                  = link_table[returned].product_id
                           /\ link_table'[returned].source_product_name =
                                  IF source_product_name \notin {None, 0}
                                  THEN source_product_name
                                  ELSE link_table[returned].source_product_name
                           /\ \A k \in DOMAIN link_table :
                                  k # returned => link_table'[k] = link_table[k]
      ]_vars

\* A call for the key of the first link, passing another product, has
\* returned that link: active, with the URL and name of the call and the
\* product it was created with, beside a link of the same source.
C25_Witness ==
    /\ Len(link_table) = 2
    /\ link_call # NoCall
    /\ link_call.returned = 1
    /\ link_call.product_id # link_table[1].product_id
    /\ link_call.source_product_name = 1
    /\ link_table[1].source_product_name = 1
    /\ link_table[1].source_product_url = link_call.source_product_url
    /\ link_table[1].is_active
    /\ link_table[2].source_id = link_table[1].source_id

(***************************************************************************)
(* Concurrent runs and the unique key of a snapshot (under SpecRuns)       *)
(***************************************************************************)
\* No two rows of the table have the same key columns.
OneRowPerKey(table, columns) ==
    \A k1, k2 \in DOMAIN table :
        (\A c \in columns : table[k1][c] = table[k2][c]) => k1 = k2

\* The step in which the commit of run r is rejected for the unique key.
LosesRace(r) ==
    /\ runs[r].pc = "commit"
    /\ runs'[r].pc = "lookup"
    /\ runs[r].row.existing = 0
    /\ SnapshotHits(runs[r].engine, SnapshotTable(runs[r].engine),
                    runs[r].row.entity, runs[r].today) # {}

====
